---- MODULE Spec2Model ----
(***************************************************************************)
(* Subtitle engine of pyMediaTools: the translation manager                *)
(* (core/translation_manager.py) and the subtitle segment builder          *)
(* (core/subtitle_builder.py, core/cjk_tokenizer.py).                      *)
(*                                                                         *)
(* Strings are sequences of atoms.  In a response of the translation       *)
(* service the atom "SEP" is the substring ###SEG_SEP###, "DASH" is the    *)
(* delimiter line "\n---\n" of the mocked response in                      *)
(* tests/test_translation_optimization.py, " " is one whitespace           *)
(* character and every other atom is a piece of translated text.           *)
(* Times are integers in units of 0.1 s.                                   *)
(***************************************************************************)
EXTENDS Integers, Sequences, FiniteSets, TLC

\* ------------------------------------------------------------------ bounds
MaxSegs == 3
MaxRespLen == 3
MaxChars == 3
MaxWordsPerLine == 2
MaxMissing == 1
MaxEntries == 3
\* most cues of a source subtitle list
MaxCues == 3
\* most TTSWorker runs saving to one path
MaxRuns == 2
\* most files of a batch
MaxFiles == 3

\* ------------------------------------------------- TranslationManager state
VARIABLES
    entry,                \* the method called: "translate_segments" or "_request_with_retry"
    api_key,              \* TRUE iff self.api_key is a non-empty string
    heap,                 \* the segment dicts, by object identity (index)
    segments,             \* the argument of translate_segments: a list of references
    translated_segments,  \* the list translate_segments builds
    i,                    \* loop variable of translate_segments (offset of the batch)
    pc,                   \* "start", "loop", "request", "done"
    retry_count,          \* local of _request_with_retry
    status,               \* what the last requests.post of the call gave: "none" before
                          \* the first, "200", "429", "other", or "exc" (it raised)
    posts,                \* number of requests.post calls of the running _request_with_retry
    sleeps,               \* arguments of the time.sleep calls of the running _request_with_retry
    outcome,              \* how the last _request_with_retry ended
    batch_log,            \* per finished batch: did its request raise, and the list
                          \* _translate_batch returned
    ret                   \* the list translate_segments returned (references)

tmVars == <<entry, api_key, heap, segments, translated_segments, i, pc, retry_count,
            status, posts, sleeps, outcome, batch_log, ret>>

\* ------------------------------------------- SubtitleSegmentBuilder state
VARIABLES
    chars,                \* build_segments argument: the characters
    char_starts,          \* build_segments argument: start time of each character
    char_ends,            \* build_segments argument: end time of each character
    call,                 \* the other arguments of the build_segments call
    bpc,                  \* "off", "input" (before the call), then "built",
                          \* "grouped" or "clustered" (the call returned) or
                          \* "raised" (it raised IndexError)
    result                \* the list the call returned

sbVars == <<chars, char_starts, char_ends, call, bpc, result>>

\* --------------------------------------------------- SubtitleWriter state
VARIABLES
    srt_segments,         \* write_srt argument: the segments
    srt_file,             \* the file at filename: does it exist, and its entries
    wpc,                  \* "off", "input" (before the call), "returned", "raised"
    werr                  \* the exception write_srt raised, "none" if none

swVars == <<srt_segments, srt_file, wpc, werr>>

\* --------------------------------------------------- SrtsToFcpxml state
VARIABLES
    source_subs,          \* the cues parsed from source_srt: start, end (ms)
    trans_srts,           \* one cue list per translation
    seamless_fcpxml,      \* SrtsToFcpxml argument
    spine,                \* the children of the spine element, in document
                          \* order, as the file at save_path holds them
    fpc                   \* "off", "input" (before the call), "written",
                          \* "empty" (returned, no file) or "raised"

fxVars == <<source_subs, trans_srts, seamless_fcpxml, spine, fpc>>

\* ------------------------------------------------------- TTSWorker state
VARIABLES
    worker,               \* the TTSWorker of the current run: its flags
    resp_json,            \* process_response argument: what it carries
    tpc,                  \* the position of process_response
    run_no,               \* the number of the current run, 0 before the first
    files,                \* for each file of base_path: the run that wrote it
                          \* last, 0 if it does not exist
    signals,              \* the signals the current run emitted, in order
    exported              \* trans_contents of the SrtsToFcpxml call that wrote
                          \* the .fcpxml file: the runs its items come from

ttsVars == <<worker, resp_json, tpc, run_no, files, signals, exported>>

\* -------------------------------------------------- MediaConverter state
VARIABLES
    GlobalProgressMonitor, \* the module-level monitor: "None" or "monitor"
    stop_flag,            \* what the monitor's check_stop_flag() returns
    use_cli,              \* self.use_cli: tqdm progress bars are made
    self_files,           \* self.files: for each file what process_file does
    file_no,              \* idx of the loop of run, 0 before the first turn
    processed,            \* the idx of the process_file calls made, in order
    reports,              \* the update_overall_progress calls: current, total
    mpc                   \* "off", "input" (before run), "loop", "report",
                          \* "returned" or "raised" (run raised AttributeError)

mcVars == <<GlobalProgressMonitor, stop_flag, use_cli, self_files, file_no,
            processed, reports, mpc>>

vars == <<tmVars, sbVars, swVars, fxVars, ttsVars, mcVars>>

\* ----------------------------------------------------- program constants
batch_size == 2
max_retries == 3
backoff_delay == 5
network_delay == 2

\* ------------------------------------------------------------- strings
TextAtoms == {"x"}
RespAtoms == TextAtoms \cup {"SEP", "DASH", " "}

Responses == UNION {[1..n -> RespAtoms] : n \in 0..MaxRespLen}

\* the whitespace characters of the model
Whitespace == {" "}

RECURSIVE LStrip(_)
LStrip(s) == IF s = <<>> THEN <<>>
             ELSE IF Head(s) \in Whitespace THEN LStrip(Tail(s)) ELSE s

RECURSIVE RStrip(_)
RStrip(s) == IF s = <<>> THEN <<>>
             ELSE IF s[Len(s)] \in Whitespace THEN RStrip(SubSeq(s, 1, Len(s) - 1)) ELSE s

\* str.strip()
Strip(s) == RStrip(LStrip(s))

\* str.split(sep) for a one-atom separator
RECURSIVE SplitOn(_, _)
SplitOn(s, sep) ==
    IF \A k \in 1..Len(s) : s[k] # sep THEN <<s>>
    ELSE LET k == CHOOSE j \in 1..Len(s) :
                      s[j] = sep /\ \A m \in 1..(j - 1) : s[m] # sep
         IN  <<SubSeq(s, 1, k - 1)>> \o SplitOn(SubSeq(s, k + 1, Len(s)), sep)

\* line 110: separator = "###SEG_SEP###"; line 127: result_raw.split(separator)
separator == "SEP"
Split(s) == SplitOn(s, separator)

\* an optional string: None, or a string
None == [none |-> TRUE, text |-> <<>>]
Some(t) == [none |-> FALSE, text |-> t]
\* Python truthiness of an optional string
Truthy(o) == ~o.none /\ o.text # <<>>

Nones(n) == [k \in 1..n |-> None]

\* the segment the caller passes at position k (0-based k-1)
SrcText(k) == <<"s" \o ToString(k)>>
SrcSegment(k) == [text |-> SrcText(k), start |-> 2 * k, end |-> 2 * k + 1]

\* how a _request_with_retry call ended
Pending == [kind |-> "pending", content |-> None]
Returned(o) == [kind |-> "returned", content |-> o]
Raised == [kind |-> "raised", content |-> None]

\* ------------------------------------------------------- _translate_batch
\* SplitLines without the padding of line 140
SplitLinesNoPad(result_raw, n) ==
    LET lines0 == [k \in 1..Len(Split(result_raw)) |-> Some(Strip(Split(result_raw)[k]))]
    IN  IF Len(lines0) > n THEN SubSeq(lines0, 1, n) ELSE lines0

\* lines 126-142: the list made of the response text result_raw for n texts
SplitLines(result_raw, n) ==
    LET lines0 == [k \in 1..Len(Split(result_raw)) |-> Some(Strip(Split(result_raw)[k]))]
        lines1 == IF Len(lines0) > n /\ ~Truthy(lines0[Len(lines0)])
                  THEN SubSeq(lines0, 1, Len(lines0) - 1)
                  ELSE lines0
    IN  IF Len(lines1) # n
        THEN IF Len(lines1) > n
             THEN SubSeq(lines1, 1, n)
             ELSE lines1 \o Nones(n - Len(lines1))
        ELSE lines1

\* lines 121-145: the list _translate_batch returns for n texts when its
\* request ended as o (an exception of the request is caught at line 143)
TranslateBatch(n, o) ==
    IF o.kind = "raised" THEN Nones(n)
    ELSE IF ~Truthy(o.content) THEN Nones(n)
    ELSE SplitLines(o.content.text, n)

\* ZipCopy writing the translation into the segment it was given
RECURSIVE ZipInPlace(_, _, _, _)
ZipInPlace(h, out, batch, texts) ==
    IF batch = <<>> \/ texts = <<>> THEN [heap |-> h, out |-> out]
    ELSE LET original_seg == h[Head(batch)]
             updated_segment == IF Truthy(Head(texts))
                                THEN [original_seg EXCEPT !.text = Head(texts).text]
                                ELSE original_seg
         IN  ZipInPlace([h EXCEPT ![Head(batch)] = updated_segment],
                        Append(out, Head(batch)), Tail(batch), Tail(texts))

\* ZipCopy inserting each new segment at the front of the list
RECURSIVE ZipFront(_, _, _, _)
ZipFront(h, out, batch, texts) ==
    IF batch = <<>> \/ texts = <<>> THEN [heap |-> h, out |-> out]
    ELSE LET original_seg == h[Head(batch)]
             updated_segment == IF Truthy(Head(texts))
                                THEN [original_seg EXCEPT !.text = Head(texts).text]
                                ELSE original_seg
         IN  ZipFront(Append(h, updated_segment), <<Len(h) + 1>> \o out,
                      Tail(batch), Tail(texts))

\* lines 92-96: the loop over zip(batch, translated_texts); h is the heap,
\* out the list built so far
RECURSIVE ZipCopy(_, _, _, _)
ZipCopy(h, out, batch, texts) ==
    IF batch = <<>> \/ texts = <<>> THEN [heap |-> h, out |-> out]
    ELSE LET original_seg == h[Head(batch)]
             updated_segment == IF Truthy(Head(texts))
                                THEN [original_seg EXCEPT !.text = Head(texts).text]
                                ELSE original_seg
         IN  ZipCopy(Append(h, updated_segment), Append(out, Len(h) + 1),
                     Tail(batch), Tail(texts))

\* line 86: segments[i : i + batch_size]
Batch == SubSeq(segments, i + 1, IF i + batch_size < Len(segments)
                                 THEN i + batch_size ELSE Len(segments))

\* no build_segments call is modelled
\* no SrtsToFcpxml call is modelled
FxIdle ==
    /\ source_subs = <<>>
    /\ trans_srts = <<>>
    /\ seamless_fcpxml = FALSE
    /\ spine = <<>>
    /\ fpc = "off"

\* the file names made from save_path (lines 145, 169, 181, 205, 219)
FileNames == {"audio", "srt", "word_srt", "cn_srt", "fcpxml"}
\* lines 51-69: the flags of a TTSWorker; groq_key stands for a key found
\* in the arguments, the configuration or the environment (lines 190, 237)
Workers == [translate : BOOLEAN, word_level : BOOLEAN, export_xml : BOOLEAN,
            keyword_highlight : BOOLEAN, groq_key : BOOLEAN]
\* no TTSWorker is modelled
TtsIdle ==
    /\ worker = [translate |-> FALSE, word_level |-> FALSE, export_xml |-> FALSE,
                 keyword_highlight |-> FALSE, groq_key |-> FALSE]
    /\ resp_json = [audio |-> "missing", alignment |-> "missing"]
    /\ tpc = "off"
    /\ run_no = 0
    /\ files = [f \in FileNames |-> 0]
    /\ signals = <<>>
    /\ exported = <<>>

\* no MediaConverter is modelled
McIdle ==
    /\ GlobalProgressMonitor = "None"
    /\ stop_flag = FALSE
    /\ use_cli = FALSE
    /\ self_files = <<>>
    /\ file_no = 0
    /\ processed = <<>>
    /\ reports = <<>>
    /\ mpc = "off"

SwIdle ==
    /\ srt_segments = <<>>
    /\ srt_file = [exists |-> FALSE, entries |-> <<>>]
    /\ wpc = "off"
    /\ werr = "none"

SbIdle ==
    /\ chars = <<>>
    /\ char_starts = <<>>
    /\ char_ends = <<>>
    /\ call = [word_level |-> FALSE, words_per_line |-> 1, ignore_line_length |-> FALSE]
    /\ bpc = "off"
    /\ result = <<>>

\* -------------------------------------------------------------- Init
Init ==
    /\ entry \in {"translate_segments", "_request_with_retry"}
    /\ api_key \in BOOLEAN
    /\ \E n \in 0..MaxSegs :
          /\ heap = [k \in 1..n |-> SrcSegment(k)]
          /\ segments = [k \in 1..n |-> k]
    /\ entry = "_request_with_retry" => (api_key /\ segments = <<>>)
    /\ translated_segments = <<>>
    /\ i = 0
    /\ pc = IF entry = "translate_segments" THEN "start" ELSE "request"
    /\ retry_count = 0
    /\ status = "none"
    /\ posts = 0
    /\ sleeps = <<>>
    /\ outcome = Pending
    /\ batch_log = <<>>
    /\ ret = <<>>
    /\ SbIdle
    /\ SwIdle
    /\ FxIdle
    /\ TtsIdle
    /\ McIdle

\* --------------------------------------------------- translate_segments
\* lines 75-77
ReturnUnavailable ==
    /\ pc = "start"
    /\ ~api_key
    /\ ret' = segments
    /\ pc' = "done"
    /\ UNCHANGED <<entry, api_key, heap, segments, translated_segments, i, retry_count,
                   status, posts, sleeps, outcome, batch_log>>
    /\ UNCHANGED <<sbVars, swVars, fxVars, ttsVars, mcVars>>

\* lines 79-80
ReturnEmpty ==
    /\ pc = "start"
    /\ api_key
    /\ segments = <<>>
    /\ ret' = segments
    /\ pc' = "done"
    /\ UNCHANGED <<entry, api_key, heap, segments, translated_segments, i, retry_count,
                   status, posts, sleeps, outcome, batch_log>>
    /\ UNCHANGED <<sbVars, swVars, fxVars, ttsVars, mcVars>>

\* lines 82-85: the first evaluation of the for loop
EnterLoop ==
    /\ pc = "start"
    /\ api_key
    /\ segments # <<>>
    /\ translated_segments' = <<>>
    /\ i' = 0
    /\ pc' = "loop"
    /\ UNCHANGED <<entry, api_key, heap, segments, retry_count, status, posts, sleeps,
                   outcome, batch_log, ret>>
    /\ UNCHANGED <<sbVars, swVars, fxVars, ttsVars, mcVars>>

\* lines 85-90, 106-122, 151-164: one more batch: _translate_batch calls
\* _request_with_retry, which starts its loop
BeginBatch ==
    /\ pc = "loop"
    /\ i < Len(segments)
    /\ retry_count' = 0
    /\ status' = "none"
    /\ posts' = 0
    /\ sleeps' = <<>>
    /\ outcome' = Pending
    /\ pc' = "request"
    /\ UNCHANGED <<entry, api_key, heap, segments, translated_segments, i, batch_log, ret>>
    /\ UNCHANGED <<sbVars, swVars, fxVars, ttsVars, mcVars>>

\* lines 85, 104: the range is exhausted
ReturnTranslated ==
    /\ pc = "loop"
    /\ i >= Len(segments)
    /\ ret' = translated_segments
    /\ pc' = "done"
    /\ UNCHANGED <<entry, api_key, heap, segments, translated_segments, i, retry_count,
                   status, posts, sleeps, outcome, batch_log>>
    /\ UNCHANGED <<sbVars, swVars, fxVars, ttsVars, mcVars>>

\* IntegrateBatch leaving the for loop when the request raised
IntegrateBatchAbort(o) ==
    IF o.kind = "raised"
    THEN /\ i' = Len(segments)
         /\ pc' = "loop"
         /\ UNCHANGED <<heap, translated_segments, batch_log>>
    ELSE LET texts == TranslateBatch(Len(Batch), o)
             z == ZipCopy(heap, translated_segments, Batch, texts)
         IN  /\ heap' = z.heap
             /\ translated_segments' = z.out
             /\ batch_log' = Append(batch_log, [failed |-> FALSE, texts |-> texts])
             /\ i' = i + batch_size
             /\ pc' = "loop"

\* lines 123-145 and 90-98: _request_with_retry has ended as o inside
\* _translate_batch; the batch is integrated and the for loop advances
IntegrateBatch(o) ==
    LET texts == TranslateBatch(Len(Batch), o)
        z == ZipCopy(heap, translated_segments, Batch, texts)
    IN  /\ heap' = z.heap
        /\ translated_segments' = z.out
        /\ batch_log' = Append(batch_log, [failed |-> o.kind = "raised", texts |-> texts])
        /\ i' = i + batch_size
        /\ pc' = "loop"

\* the return of _request_with_retry (or its exception) as o, after a
\* request with status st that left retry_count at rc.  Called directly,
\* the call is over and its counters stay to be inspected; called by
\* _translate_batch, its frame is gone and the batch is integrated
EndRequest(o, st, rc) ==
    /\ outcome' = o
    /\ IF entry = "_request_with_retry"
       THEN /\ pc' = "done"
            /\ status' = st
            /\ retry_count' = rc
            /\ posts' = posts + 1
            /\ UNCHANGED <<sleeps, heap, translated_segments, i, batch_log>>
       ELSE /\ IntegrateBatch(o)
            /\ status' = "none"
            /\ retry_count' = 0
            /\ posts' = 0
            /\ sleeps' = <<>>
    /\ UNCHANGED <<entry, api_key, segments, ret>>
    /\ UNCHANGED <<sbVars, swVars, fxVars, ttsVars, mcVars>>

\* time.sleep(wait_time) and the next turn of the while loop
Retry(st, wait_time) ==
    /\ status' = st
    /\ retry_count' = retry_count + 1
    /\ posts' = posts + 1
    /\ sleeps' = Append(sleeps, wait_time)
    /\ UNCHANGED <<entry, api_key, heap, segments, translated_segments, i, pc,
                   outcome, batch_log, ret>>
    /\ UNCHANGED <<sbVars, swVars, fxVars, ttsVars, mcVars>>

\* --------------------------------------------------- _request_with_retry
\* lines 164-171: status 200 with a choice
Post200(content) ==
    /\ pc = "request"
    /\ retry_count <= max_retries
    /\ EndRequest(Returned(Some(Strip(content))), "200", retry_count)

\* lines 164-172: status 200 without choices
Post200NoChoices ==
    /\ pc = "request"
    /\ retry_count <= max_retries
    /\ EndRequest(Returned(None), "200", retry_count)

\* Post429 with a delay growing linearly
Post429Linear ==
    /\ pc = "request"
    /\ retry_count <= max_retries
    /\ IF retry_count + 1 > max_retries
       THEN EndRequest(Raised, "429", retry_count + 1)
       ELSE Retry("429", backoff_delay * (retry_count + 1))

\* lines 173-181
Post429 ==
    /\ pc = "request"
    /\ retry_count <= max_retries
    /\ IF retry_count + 1 > max_retries
       THEN EndRequest(Raised, "429", retry_count + 1)
       ELSE Retry("429", backoff_delay * (2 ^ ((retry_count + 1) - 1)))

\* PostOtherStatus handled as the network errors are
PostOtherStatusRetried ==
    /\ pc = "request"
    /\ retry_count <= max_retries
    /\ IF retry_count + 1 > max_retries
       THEN EndRequest(Raised, "other", retry_count + 1)
       ELSE Retry("other", network_delay)

\* lines 182-185: the Exception raised here is no requests.RequestException,
\* so the handler at line 187 does not catch it
PostOtherStatus ==
    /\ pc = "request"
    /\ retry_count <= max_retries
    /\ EndRequest(Raised, "other", retry_count)

\* PostNetworkError with a retry budget of its own, one larger
PostNetworkErrorOneMore ==
    /\ pc = "request"
    /\ retry_count <= max_retries + 1
    /\ IF retry_count + 1 > max_retries + 1
       THEN EndRequest(Raised, "exc", retry_count + 1)
       ELSE Retry("exc", network_delay)

\* lines 166, 187-192: requests.post raises Timeout or RequestException
PostNetworkError ==
    /\ pc = "request"
    /\ retry_count <= max_retries
    /\ IF retry_count + 1 > max_retries
       THEN EndRequest(Raised, "exc", retry_count + 1)
       ELSE Retry("exc", network_delay)

Next ==
    \/ ReturnUnavailable
    \/ ReturnEmpty
    \/ EnterLoop
    \/ BeginBatch
    \/ ReturnTranslated
    \/ \E content \in Responses : Post200(content)
    \/ Post200NoChoices
    \/ Post429
    \/ PostOtherStatus
    \/ PostNetworkError

Spec == Init /\ [][Next]_vars

\* lines 164-192: the loop is sequential code and requests.post is called
\* with a timeout, so a call in progress takes its next step
FairSpec == Spec /\ WF_vars(Next)

\* =================================================== subtitle engine
\* Characters are one-atom strings: "a" is a Latin letter, "zh" a CJK
\* ideograph (U+4E00..U+9FFF), " " a space, "." a full stop, "," a comma.
Alphabet == {"a", "zh", " ", ".", ","}

\* subtitle_builder.py lines 32-45: the default configuration, cut to the
\* alphabets; "danda" is the Devanagari full stop U+0964, which both lists
\* hold; pause_threshold 0.2 s is 2 tenths of a second
delimiters == {" ", ",", "danda"}
sentence_enders == {".", "danda"}
pause_threshold == 2
\* srt_max_chars (default 35), configured to 1 so that lines of the model's
\* inputs exceed it
max_chars_per_line == 1

\* cjk_tokenizer.py lines 74-77 and 162-165: string.punctuation and the CJK
\* punctuation, cut to the alphabet
punctuation_chars == {".", ","}

\* cjk_tokenizer.py lines 36-38
is_cjk(char) == char = "zh"

\* current_line_start / word_start is None
NoTime == -1

\* " ".join(s.split()) of a string without leading or trailing whitespace
RECURSIVE Collapse(_)
Collapse(s) ==
    IF s = <<>> THEN <<>>
    ELSE IF Head(s) \in Whitespace
         THEN IF Tail(s) # <<>> /\ Head(Tail(s)) \in Whitespace
              THEN Collapse(Tail(s))
              ELSE <<" ">> \o Collapse(Tail(s))
         ELSE <<Head(s)>> \o Collapse(Tail(s))

\* subtitle_builder.py lines 134-136: strip, then " ".join(split())
Clean(s) == Collapse(Strip(s))

\* ---------------------------------------------- _build_segments_standard
\* lines 104-106
StdInit == [sentences |-> <<>>, current_line_text |-> <<>>, current_line_start |-> NoTime]

\* StdStep detecting the pause from the gap to the next character
StdStepGap(st, cs, ss, es, k, ignore_line_length) ==
    LET current_line_start == IF st.current_line_start = NoTime
                              THEN ss[k] ELSE st.current_line_start
        current_line_text == Append(st.current_line_text, cs[k])
        is_sentence_end == cs[k] \in sentence_enders
        is_pause_after == (k < Len(cs)) /\ (ss[k + 1] - es[k] >= pause_threshold)
        is_long_and_at_delimiter ==
            /\ ~ignore_line_length
            /\ Len(current_line_text) > max_chars_per_line
            /\ cs[k] \in delimiters
        is_last_char == k = Len(cs)
        clean_text == Clean(current_line_text)
    IN  IF is_sentence_end \/ is_pause_after \/ is_long_and_at_delimiter \/ is_last_char
        THEN [sentences |-> IF clean_text # <<>>
                            THEN Append(st.sentences, [text |-> clean_text,
                                                       start |-> current_line_start,
                                                       end |-> es[k]])
                            ELSE st.sentences,
              current_line_text |-> <<>>,
              current_line_start |-> NoTime]
        ELSE [sentences |-> st.sentences,
              current_line_text |-> current_line_text,
              current_line_start |-> current_line_start]

\* StdStep without the close at the last character
StdStepNoLast(st, cs, ss, es, k, ignore_line_length) ==
    LET current_line_start == IF st.current_line_start = NoTime
                              THEN ss[k] ELSE st.current_line_start
        current_line_text == Append(st.current_line_text, cs[k])
        is_sentence_end == cs[k] \in sentence_enders
        is_pause_after == (k < Len(cs)) /\ (es[k] - ss[k] >= pause_threshold)
        is_long_and_at_delimiter ==
            /\ ~ignore_line_length
            /\ Len(current_line_text) > max_chars_per_line
            /\ cs[k] \in delimiters
        clean_text == Clean(current_line_text)
    IN  IF is_sentence_end \/ is_pause_after \/ is_long_and_at_delimiter
        THEN [sentences |-> IF clean_text # <<>>
                            THEN Append(st.sentences, [text |-> clean_text,
                                                       start |-> current_line_start,
                                                       end |-> es[k]])
                            ELSE st.sentences,
              current_line_text |-> <<>>,
              current_line_start |-> NoTime]
        ELSE [sentences |-> st.sentences,
              current_line_text |-> current_line_text,
              current_line_start |-> current_line_start]

\* StdStep without the close at a sentence-ending character
StdStepNoEnder(st, cs, ss, es, k, ignore_line_length) ==
    LET current_line_start == IF st.current_line_start = NoTime
                              THEN ss[k] ELSE st.current_line_start
        current_line_text == Append(st.current_line_text, cs[k])
        is_pause_after == (k < Len(cs)) /\ (es[k] - ss[k] >= pause_threshold)
        is_long_and_at_delimiter ==
            /\ ~ignore_line_length
            /\ Len(current_line_text) > max_chars_per_line
            /\ cs[k] \in delimiters
        is_last_char == k = Len(cs)
        clean_text == Clean(current_line_text)
    IN  IF is_pause_after \/ is_long_and_at_delimiter \/ is_last_char
        THEN [sentences |-> IF clean_text # <<>>
                            THEN Append(st.sentences, [text |-> clean_text,
                                                       start |-> current_line_start,
                                                       end |-> es[k]])
                            ELSE st.sentences,
              current_line_text |-> <<>>,
              current_line_start |-> NoTime]
        ELSE [sentences |-> st.sentences,
              current_line_text |-> current_line_text,
              current_line_start |-> current_line_start]

\* StdStep closing a long line at any character, delimiter or not
StdStepLongAnywhere(st, cs, ss, es, k, ignore_line_length) ==
    LET current_line_start == IF st.current_line_start = NoTime
                              THEN ss[k] ELSE st.current_line_start
        current_line_text == Append(st.current_line_text, cs[k])
        is_sentence_end == cs[k] \in sentence_enders
        is_pause_after == (k < Len(cs)) /\ (es[k] - ss[k] >= pause_threshold)
        is_long_and_at_delimiter ==
            /\ ~ignore_line_length
            /\ Len(current_line_text) > max_chars_per_line
        is_last_char == k = Len(cs)
        clean_text == Clean(current_line_text)
    IN  IF is_sentence_end \/ is_pause_after \/ is_long_and_at_delimiter \/ is_last_char
        THEN [sentences |-> IF clean_text # <<>>
                            THEN Append(st.sentences, [text |-> clean_text,
                                                       start |-> current_line_start,
                                                       end |-> es[k]])
                            ELSE st.sentences,
              current_line_text |-> <<>>,
              current_line_start |-> NoTime]
        ELSE [sentences |-> st.sentences,
              current_line_text |-> current_line_text,
              current_line_start |-> current_line_start]

\* lines 108-140: the loop body for character k (1-based)
StdStep(st, cs, ss, es, k, ignore_line_length) ==
    LET current_line_start == IF st.current_line_start = NoTime
                              THEN ss[k] ELSE st.current_line_start
        current_line_text == Append(st.current_line_text, cs[k])
        is_sentence_end == cs[k] \in sentence_enders
        is_pause_after == (k < Len(cs)) /\ (es[k] - ss[k] >= pause_threshold)
        is_long_and_at_delimiter ==
            /\ ~ignore_line_length
            /\ Len(current_line_text) > max_chars_per_line
            /\ cs[k] \in delimiters
        is_last_char == k = Len(cs)
        clean_text == Clean(current_line_text)
    IN  IF is_sentence_end \/ is_pause_after \/ is_long_and_at_delimiter \/ is_last_char
        THEN [sentences |-> IF clean_text # <<>>
                            THEN Append(st.sentences, [text |-> clean_text,
                                                       start |-> current_line_start,
                                                       end |-> es[k]])
                            ELSE st.sentences,
              current_line_text |-> <<>>,
              current_line_start |-> NoTime]
        ELSE [sentences |-> st.sentences,
              current_line_text |-> current_line_text,
              current_line_start |-> current_line_start]

\* lines 104-140: the locals after the first k characters
RECURSIVE StdRun(_, _, _, _, _)
StdRun(cs, ss, es, k, ignore_line_length) ==
    IF k = 0 THEN StdInit
    ELSE StdStep(StdRun(cs, ss, es, k - 1, ignore_line_length), cs, ss, es, k,
                 ignore_line_length)

\* lines 81-142
BuildSegmentsStandardOp(cs, ss, es, ignore_line_length) ==
    StdRun(cs, ss, es, Len(cs), ignore_line_length).sentences

\* ------------------------------------------ CJKTokenizer.tokenize_by_cjk
\* lines 79-81
TokInit == [words |-> <<>>, current_word |-> <<>>, word_start |-> NoTime]

\* lines 83-127: the loop body for character k (1-based)
TokStep(st, cs, ss, es, k) ==
    IF cs[k] \in punctuation_chars
    THEN [words |-> (IF st.current_word # <<>>
                     THEN Append(st.words, [text |-> st.current_word,
                                            start |-> st.word_start, end |-> ss[k]])
                     ELSE st.words)
                    \o <<[text |-> <<cs[k]>>, start |-> ss[k], end |-> es[k]]>>,
          current_word |-> IF st.current_word # <<>> THEN <<>> ELSE st.current_word,
          word_start |-> IF st.current_word # <<>> THEN NoTime ELSE st.word_start]
    ELSE LET word_start == IF st.word_start = NoTime THEN ss[k] ELSE st.word_start
         IN  IF is_cjk(cs[k])
             THEN [words |-> (IF st.current_word # <<>>
                              THEN Append(st.words, [text |-> st.current_word,
                                                     start |-> word_start, end |-> ss[k]])
                              ELSE st.words)
                             \o <<[text |-> <<cs[k]>>, start |-> ss[k], end |-> es[k]]>>,
                   current_word |-> <<>>,
                   word_start |-> NoTime]
             ELSE IF cs[k] \in Whitespace
             THEN [words |-> IF st.current_word # <<>>
                             THEN Append(st.words, [text |-> st.current_word,
                                                    start |-> word_start, end |-> ss[k]])
                             ELSE st.words,
                   current_word |-> <<>>,
                   word_start |-> NoTime]
             ELSE [words |-> IF k = Len(cs)
                             THEN Append(st.words, [text |-> Append(st.current_word, cs[k]),
                                                    start |-> word_start, end |-> es[k]])
                             ELSE st.words,
                   current_word |-> Append(st.current_word, cs[k]),
                   word_start |-> word_start]

RECURSIVE TokRun(_, _, _, _)
TokRun(cs, ss, es, k) ==
    IF k = 0 THEN TokInit ELSE TokStep(TokRun(cs, ss, es, k - 1), cs, ss, es, k)

\* lines 70-129
tokenize_by_cjk(cs, ss, es) ==
    IF cs = <<>> THEN <<>> ELSE TokRun(cs, ss, es, Len(cs)).words

\* ----------------------------------------------- CJKTokenizer.smart_join
\* line 170: the characters of a text that are no punctuation
RECURSIVE StripPunctuation(_)
StripPunctuation(t) ==
    IF t = <<>> THEN <<>>
    ELSE IF Head(t) \in punctuation_chars THEN StripPunctuation(Tail(t))
         ELSE <<Head(t)>> \o StripPunctuation(Tail(t))

\* lines 168-174: cleaned_parts
RECURSIVE CleanedParts(_)
CleanedParts(word_objects) ==
    IF word_objects = <<>> THEN <<>>
    ELSE LET txt == Clean(StripPunctuation(Head(word_objects).text))
         IN  (IF txt # <<>> THEN <<txt>> ELSE <<>>) \o CleanedParts(Tail(word_objects))

\* JoinParts putting a space wherever one of the two characters is not CJK
RECURSIVE JoinPartsAnySpace(_, _)
JoinPartsAnySpace(parts, k) ==
    IF k = 1 THEN parts[1]
    ELSE LET prev_text == parts[k - 1]
             current_text == parts[k]
             is_prev_cjk == is_cjk(prev_text[Len(prev_text)])
             is_curr_cjk == is_cjk(current_text[1])
         IN  IF ~is_prev_cjk \/ ~is_curr_cjk
             THEN JoinPartsAnySpace(parts, k - 1) \o <<" ">> \o current_text
             ELSE JoinPartsAnySpace(parts, k - 1) \o current_text

\* lines 180-197: the result after the first k parts
RECURSIVE JoinParts(_, _)
JoinParts(parts, k) ==
    IF k = 1 THEN parts[1]
    ELSE LET prev_text == parts[k - 1]
             current_text == parts[k]
             is_prev_cjk == is_cjk(prev_text[Len(prev_text)])
             is_curr_cjk == is_cjk(current_text[1])
         IN  IF ~is_prev_cjk /\ ~is_curr_cjk
             THEN JoinParts(parts, k - 1) \o <<" ">> \o current_text
             ELSE JoinParts(parts, k - 1) \o current_text

\* lines 158-199
smart_join(word_objects) ==
    IF word_objects = <<>> THEN <<>>
    ELSE IF CleanedParts(word_objects) = <<>> THEN <<>>
    ELSE JoinParts(CleanedParts(word_objects), Len(CleanedParts(word_objects)))

\* ---------------------------------------------- CJKTokenizer.group_words
\* cjk_tokenizer.py lines 223-224
GwInit == [groups |-> <<>>, current_group |-> <<>>]

\* GwStep closing a group only once it holds more than words_per_line words
GwStepOver(st, word_objects, k, words_per_line) ==
    LET word_obj == word_objects[k]
        current_group == Append(st.current_group, word_obj)
        is_limit_reached == Len(current_group) > words_per_line
        is_sentence_end == \E m \in 1..Len(word_obj.text) : word_obj.text[m] \in sentence_enders
        is_pause == (k < Len(word_objects)) /\ (word_obj.end - word_obj.start >= pause_threshold)
        is_last == k = Len(word_objects)
    IN  IF is_limit_reached \/ is_sentence_end \/ is_pause \/ is_last
        THEN [groups |-> Append(st.groups, current_group), current_group |-> <<>>]
        ELSE [groups |-> st.groups, current_group |-> current_group]

\* lines 226-238: the loop body for word k (1-based); the caller passes the
\* builder's sentence_enders and pause_threshold
GwStep(st, word_objects, k, words_per_line) ==
    LET word_obj == word_objects[k]
        current_group == Append(st.current_group, word_obj)
        is_limit_reached == Len(current_group) >= words_per_line
        is_sentence_end == \E m \in 1..Len(word_obj.text) : word_obj.text[m] \in sentence_enders
        is_pause == (k < Len(word_objects)) /\ (word_obj.end - word_obj.start >= pause_threshold)
        is_last == k = Len(word_objects)
    IN  IF is_limit_reached \/ is_sentence_end \/ is_pause \/ is_last
        THEN [groups |-> Append(st.groups, current_group), current_group |-> <<>>]
        ELSE [groups |-> st.groups, current_group |-> current_group]

RECURSIVE GwRun(_, _, _)
GwRun(word_objects, k, words_per_line) ==
    IF k = 0 THEN GwInit
    ELSE GwStep(GwRun(word_objects, k - 1, words_per_line), word_objects, k, words_per_line)

\* lines 202-240
group_words(word_objects, words_per_line) ==
    IF word_objects = <<>> THEN <<>>
    ELSE GwRun(word_objects, Len(word_objects), words_per_line).groups

\* ------------------------------------- _merge_punctuation_with_previous
\* subtitle_builder.py lines 214-224: delimiters and sentence enders
merge_punctuation_chars == delimiters \cup sentence_enders

\* line 232
IsPunctuationWord(word) ==
    \A m \in 1..Len(word.text) :
       word.text[m] \notin Whitespace => word.text[m] \in merge_punctuation_chars

\* lines 226-244: result after the first k words
RECURSIVE MergeRun(_, _)
MergeRun(words, k) ==
    IF k = 0 THEN <<>>
    ELSE LET res == MergeRun(words, k - 1)
             word == words[k]
         IN  IF IsPunctuationWord(word) /\ res # <<>>
             THEN [res EXCEPT ![Len(res)] =
                      [text |-> res[Len(res)].text \o word.text,
                       start |-> res[Len(res)].start,
                       end |-> word.end]]
             ELSE Append(res, word)

\* lines 201-244
merge_punctuation_with_previous(words) == MergeRun(words, Len(words))

\* -------------------------------------------- _build_segments_word_level
\* lines 169-170
GroupInit == [segments |-> <<>>, current_group |-> <<>>]

\* line 177: any(ender in word_obj["text"] for ender in self.sentence_enders)
HasSentenceEnder(word) == \E m \in 1..Len(word.text) : word.text[m] \in sentence_enders

\* GroupStep with the values of start and end exchanged
GroupStepSwapped(st, pw, k, words_per_line) ==
    LET current_group == Append(st.current_group, pw[k])
        is_limit_reached == Len(current_group) >= words_per_line
        is_sentence_end == HasSentenceEnder(pw[k])
        is_pause == (k < Len(pw)) /\ (pw[k + 1].start - pw[k].end >= pause_threshold)
        is_last == k = Len(pw)
        text_content == smart_join(current_group)
    IN  IF is_limit_reached \/ is_sentence_end \/ is_pause \/ is_last
        THEN [segments |-> IF text_content # <<>>
                           THEN Append(st.segments,
                                       [text |-> text_content,
                                        start |-> current_group[Len(current_group)].end,
                                        end |-> current_group[1].start])
                           ELSE st.segments,
              current_group |-> <<>>]
        ELSE [segments |-> st.segments, current_group |-> current_group]

\* lines 172-197: the loop body for processed word k (1-based)
GroupStep(st, pw, k, words_per_line) ==
    LET current_group == Append(st.current_group, pw[k])
        is_limit_reached == Len(current_group) >= words_per_line
        is_sentence_end == HasSentenceEnder(pw[k])
        is_pause == (k < Len(pw)) /\ (pw[k + 1].start - pw[k].end >= pause_threshold)
        is_last == k = Len(pw)
        text_content == smart_join(current_group)
    IN  IF is_limit_reached \/ is_sentence_end \/ is_pause \/ is_last
        THEN [segments |-> IF text_content # <<>>
                           THEN Append(st.segments,
                                       [text |-> text_content,
                                        start |-> current_group[1].start,
                                        end |-> current_group[Len(current_group)].end])
                           ELSE st.segments,
              current_group |-> <<>>]
        ELSE [segments |-> st.segments, current_group |-> current_group]

RECURSIVE GroupRun(_, _, _)
GroupRun(pw, k, words_per_line) ==
    IF k = 0 THEN GroupInit
    ELSE GroupStep(GroupRun(pw, k - 1, words_per_line), pw, k, words_per_line)

\* lines 144-199
BuildSegmentsWordLevelOp(cs, ss, es, words_per_line) ==
    LET words == tokenize_by_cjk(cs, ss, es)
        processed_words == merge_punctuation_with_previous(words)
    IN  GroupRun(processed_words, Len(processed_words), words_per_line).segments

\* ------------------------------------------------------- build_segments
\* lines 71-79
build_segments(cs, ss, es, word_level, words_per_line, ignore_line_length) ==
    IF cs = <<>> THEN <<>>
    ELSE IF word_level THEN BuildSegmentsWordLevelOp(cs, ss, es, words_per_line)
    ELSE BuildSegmentsStandardOp(cs, ss, es, ignore_line_length)

\* _build_segments_standard reads char_starts[i] at line 110 when no line is
\* open, char_ends[i] and char_starts[i] at line 116 unless i is the last
\* index, and char_ends[i] at line 138 when it appends a segment: iteration k
\* raises IndexError when one of these reads is past the end of its list
StdRaisesAt(cs, ss, es, k, ignore_line_length) ==
    LET st == StdRun(cs, ss, es, k - 1, ignore_line_length)
    IN  \/ st.current_line_start = NoTime /\ k > Len(ss)
        \/ k < Len(cs) /\ (k > Len(es) \/ k > Len(ss))
        \/ /\ k = Len(cs)
           /\ Clean(Append(st.current_line_text, cs[k])) # <<>>
           /\ k > Len(es)

\* one of the first k iterations of _build_segments_standard raises
RECURSIVE StdRaises(_, _, _, _, _)
StdRaises(cs, ss, es, k, ignore_line_length) ==
    /\ k >= 1
    /\ \/ StdRaises(cs, ss, es, k - 1, ignore_line_length)
       \/ StdRaisesAt(cs, ss, es, k, ignore_line_length)

\* cjk_tokenizer.py lines 86-127: the reads of char_starts[i] and char_ends[i]
\* of iteration k, by the branch it takes
TokRaisesAt(cs, ss, es, k) ==
    LET st == TokRun(cs, ss, es, k - 1)
    IN  IF cs[k] \in punctuation_chars THEN k > Len(ss) \/ k > Len(es)
        ELSE IF st.word_start = NoTime /\ k > Len(ss) THEN TRUE
        ELSE IF is_cjk(cs[k]) THEN k > Len(ss) \/ k > Len(es)
        ELSE IF cs[k] \in Whitespace THEN st.current_word # <<>> /\ k > Len(ss)
        ELSE k = Len(cs) /\ k > Len(es)

\* one of the first k iterations of tokenize_by_cjk raises
RECURSIVE TokRaises(_, _, _, _)
TokRaises(cs, ss, es, k) ==
    /\ k >= 1
    /\ \/ TokRaises(cs, ss, es, k - 1)
       \/ TokRaisesAt(cs, ss, es, k)

\* build_segments raises IndexError: neither it nor the functions it calls
\* compare the lengths of the three lists or catch the exception
BuildRaises(cs, ss, es, word_level, ignore_line_length) ==
    /\ cs # <<>>
    /\ IF word_level THEN TokRaises(cs, ss, es, Len(cs))
       ELSE StdRaises(cs, ss, es, Len(cs), ignore_line_length)

\* the timed characters an alignment can hold: a character lasts 0 or
\* pause_threshold tenths of a second; the next one starts while it still
\* sounds (never before it started), right at its end, or after a silence
\* of pause_threshold
Durations == {0, pause_threshold}
Gaps == {0 - pause_threshold, 0, pause_threshold}

RECURSIVE StartOf(_, _, _)
StartOf(durs, gaps, k) ==
    IF k = 1 THEN 0
    ELSE LET prev == StartOf(durs, gaps, k - 1)
             next == prev + durs[k - 1] + gaps[k - 1]
         IN  IF next < prev THEN prev ELSE next

\* no TranslationManager call is modelled
TmIdle ==
    /\ entry = "none"
    /\ api_key = FALSE
    /\ heap = <<>>
    /\ segments = <<>>
    /\ translated_segments = <<>>
    /\ i = 0
    /\ pc = "off"
    /\ retry_count = 0
    /\ status = "none"
    /\ posts = 0
    /\ sleeps = <<>>
    /\ outcome = Pending
    /\ batch_log = <<>>
    /\ ret = <<>>

\* the caller holds the alignment arrays of a TTS response
InitBuild ==
    /\ TmIdle
    /\ SwIdle
    /\ FxIdle
    /\ TtsIdle
    /\ McIdle
    /\ \E n \in 0..MaxChars :
          /\ chars \in [1..n -> Alphabet]
          /\ \E durs \in [1..n -> Durations], gaps \in [1..(n - 1) -> Gaps] :
                /\ char_starts = [k \in 1..n |-> StartOf(durs, gaps, k)]
                /\ char_ends = [k \in 1..n |-> StartOf(durs, gaps, k) + durs[k]]
    /\ call = [word_level |-> FALSE, words_per_line |-> 1, ignore_line_length |-> FALSE]
    /\ bpc = "input"
    /\ result = <<>>

\* build_segments(chars, char_starts, char_ends, word_level=False,
\*                ignore_line_length=ignore_line_length)
BuildStandard(ignore_line_length) ==
    /\ bpc = "input"
    /\ call' = [word_level |-> FALSE, words_per_line |-> 1,
                ignore_line_length |-> ignore_line_length]
    /\ IF BuildRaises(chars, char_starts, char_ends, FALSE, ignore_line_length)
       THEN /\ bpc' = "raised"
            /\ result' = result
       ELSE /\ bpc' = "built"
            /\ result' = build_segments(chars, char_starts, char_ends, FALSE, 1,
                                        ignore_line_length)
    /\ UNCHANGED <<chars, char_starts, char_ends>>
    /\ UNCHANGED <<tmVars, swVars, fxVars, ttsVars, mcVars>>

\* build_segments(chars, char_starts, char_ends, word_level=True,
\*                words_per_line=words_per_line)
BuildWordLevel(words_per_line) ==
    /\ bpc = "input"
    /\ call' = [word_level |-> TRUE, words_per_line |-> words_per_line,
                ignore_line_length |-> FALSE]
    /\ IF BuildRaises(chars, char_starts, char_ends, TRUE, FALSE)
       THEN /\ bpc' = "raised"
            /\ result' = result
       ELSE /\ bpc' = "built"
            /\ result' = build_segments(chars, char_starts, char_ends, TRUE,
                                        words_per_line, FALSE)
    /\ UNCHANGED <<chars, char_starts, char_ends>>
    /\ UNCHANGED <<tmVars, swVars, fxVars, ttsVars, mcVars>>

\* CJKTokenizer.group_words(CJKTokenizer.tokenize_by_cjk(chars, char_starts,
\*                          char_ends), words_per_line, sentence_enders,
\*                          pause_threshold)
GroupWords(words_per_line) ==
    /\ bpc = "input"
    /\ call' = [word_level |-> TRUE, words_per_line |-> words_per_line,
                ignore_line_length |-> FALSE]
    /\ IF chars # <<>> /\ TokRaises(chars, char_starts, char_ends, Len(chars))
       THEN /\ bpc' = "raised"
            /\ result' = result
       ELSE /\ bpc' = "grouped"
            /\ result' = group_words(tokenize_by_cjk(chars, char_starts, char_ends),
                                     words_per_line)
    /\ UNCHANGED <<chars, char_starts, char_ends>>
    /\ UNCHANGED <<tmVars, swVars, fxVars, ttsVars, mcVars>>

NextBuild ==
    \/ \E ignore_line_length \in BOOLEAN : BuildStandard(ignore_line_length)
    \/ \E words_per_line \in 1..MaxWordsPerLine : BuildWordLevel(words_per_line)

SpecBuild == InitBuild /\ [][NextBuild]_vars

\* the standard mode alone
NextStandard == \E ignore_line_length \in BOOLEAN : BuildStandard(ignore_line_length)

SpecStandard == InitBuild /\ [][NextStandard]_vars

\* the two groupings of the tokens: the word-level mode and group_words
NextWords ==
    \/ \E words_per_line \in 1..MaxWordsPerLine : BuildWordLevel(words_per_line)
    \/ \E words_per_line \in 1..MaxWordsPerLine : GroupWords(words_per_line)

SpecWords == InitBuild /\ [][NextWords]_vars

\* the caller holds an alignment whose start or end list lacks up to
\* MaxMissing trailing entries
InitShort ==
    /\ TmIdle
    /\ SwIdle
    /\ FxIdle
    /\ TtsIdle
    /\ McIdle
    /\ \E n \in 1..MaxChars :
          /\ chars \in [1..n -> Alphabet]
          /\ \E durs \in [1..n -> Durations], ms \in 0..MaxMissing, me \in 0..MaxMissing :
                LET gaps == [k \in 1..(n - 1) |-> 0]
                IN  /\ ms + me > 0
                    /\ ms <= n
                    /\ me <= n
                    /\ char_starts = [k \in 1..(n - ms) |-> StartOf(durs, gaps, k)]
                    /\ char_ends = [k \in 1..(n - me) |-> StartOf(durs, gaps, k) + durs[k]]
    /\ call = [word_level |-> FALSE, words_per_line |-> 1, ignore_line_length |-> FALSE]
    /\ bpc = "input"
    /\ result = <<>>

SpecShort == InitShort /\ [][NextBuild]_vars

\* a Hindi alignment: letters, blanks, full stops and dandas; the danda is
\* in no punctuation set of cjk_tokenizer.py (lines 74-77 and 162-165)
DandaAlphabet == {"a", " ", ".", "danda"}

InitDanda ==
    /\ TmIdle
    /\ SwIdle
    /\ FxIdle
    /\ TtsIdle
    /\ McIdle
    /\ \E n \in 0..MaxChars :
          /\ chars \in [1..n -> DandaAlphabet]
          /\ \E durs \in [1..n -> Durations], gaps \in [1..(n - 1) -> Gaps] :
                /\ char_starts = [k \in 1..n |-> StartOf(durs, gaps, k)]
                /\ char_ends = [k \in 1..n |-> StartOf(durs, gaps, k) + durs[k]]
    /\ call = [word_level |-> FALSE, words_per_line |-> 1, ignore_line_length |-> FALSE]
    /\ bpc = "input"
    /\ result = <<>>

SpecDanda == InitDanda /\ [][NextBuild]_vars

\* ------------------------------- TTSWorker._write_srt: grapheme clusters
\* src/Elevenlabs.py lines 207-240 and, with the same code,
\* src/pyMediaConvert/elevenlabs/backend.py lines 164-183.
\* the characters of an accented text: a base letter and a combining mark
ClusterAlphabet == {"a", "mark"}

\* lines 207-210: unicodedata.category(ch) starts with "M"
is_combining_mark(ch) == ch = "mark"

\* lines 258-263: char_items; a time missing from its list is None
CharItems(cs, ss, es) ==
    [k \in 1..Len(cs) |->
        [char |-> cs[k],
         start |-> IF k <= Len(ss) THEN ss[k] ELSE NoTime,
         end |-> IF k <= Len(es) THEN es[k] ELSE NoTime]]

\* lines 227-231: the index j at which the inner while loop stops
RECURSIVE MarkRunEnd(_, _)
MarkRunEnd(chars_list, j) ==
    IF j <= Len(chars_list) /\ is_combining_mark(chars_list[j].char)
    THEN MarkRunEnd(chars_list, j + 1)
    ELSE j

\* ClustersFrom keeping the end of the base character
RECURSIVE ClustersFromBaseEnd(_, _)
ClustersFromBaseEnd(chars_list, base) ==
    IF base > Len(chars_list) THEN <<>>
    ELSE LET j == MarkRunEnd(chars_list, base + 1)
         IN  <<[text |-> [m \in 1..(j - base) |-> chars_list[base + m - 1].char],
                start |-> chars_list[base].start,
                end |-> chars_list[base].end]>>
             \o ClustersFromBaseEnd(chars_list, j)

\* lines 221-238: the clusters appended from index base (1-based; i in the source) on
RECURSIVE ClustersFrom(_, _)
ClustersFrom(chars_list, base) ==
    IF base > Len(chars_list) THEN <<>>
    ELSE LET j == MarkRunEnd(chars_list, base + 1)
         IN  <<[text |-> [m \in 1..(j - base) |-> chars_list[base + m - 1].char],
                start |-> chars_list[base].start,
                end |-> chars_list[j - 1].end]>>
             \o ClustersFrom(chars_list, j)

\* lines 213-240
grapheme_clusters(chars_list) == ClustersFrom(chars_list, 1)

\* the alignment of a TTS response, its time lists possibly shorter than
\* its characters
InitCluster ==
    /\ TmIdle
    /\ SwIdle
    /\ FxIdle
    /\ TtsIdle
    /\ McIdle
    /\ \E n \in 0..MaxChars :
          /\ chars \in [1..n -> ClusterAlphabet]
          /\ \E durs \in [1..n -> Durations], gaps \in [1..(n - 1) -> Gaps],
                ms \in 0..MaxMissing, me \in 0..MaxMissing :
                /\ ms <= n
                /\ me <= n
                /\ char_starts = [k \in 1..(n - ms) |-> StartOf(durs, gaps, k)]
                /\ char_ends = [k \in 1..(n - me) |-> StartOf(durs, gaps, k) + durs[k]]
    /\ call = [word_level |-> FALSE, words_per_line |-> 1, ignore_line_length |-> FALSE]
    /\ bpc = "input"
    /\ result = <<>>

\* lines 258-266: clusters = grapheme_clusters(char_items)
GraphemeClusters ==
    /\ bpc = "input"
    /\ result' = grapheme_clusters(CharItems(chars, char_starts, char_ends))
    /\ bpc' = "clustered"
    /\ UNCHANGED <<chars, char_starts, char_ends, call>>
    /\ UNCHANGED <<tmVars, swVars, fxVars, ttsVars, mcVars>>

NextCluster == GraphemeClusters

SpecCluster == InitCluster /\ [][NextCluster]_vars

\* ------------------------------------------------ SubtitleWriter.write_srt
\* src/pyMediaTools/core/subtitle_writer.py. Times are in units of 1/10000 s.
\* lines 86-91: the fields of the formatted time
format_time(seconds) ==
    [hours |-> seconds \div 36000000,
     mins |-> (seconds \div 600000) % 60,
     secs |-> (seconds % 600000) \div 10000,
     mils |-> (seconds % 10000) \div 10]

\* the texts a segment can hold: empty, blank, a word, a word after a blank
SrtTexts == {<<>>, <<" ">>, <<"x">>, <<" ", "x">>}
\* its start and end: 0 s to 0.0005 s, 1.5 s to 90.123 s, 0.0007 s to
\* 1.9996 s, or one of them None
SrtSpans == {[start |-> 0, end |-> 5], [start |-> 15000, end |-> 901230],
             [start |-> 7, end |-> 19996],
             [start |-> NoTime, end |-> 5], [start |-> 0, end |-> NoTime]}

\* lines 42-43: the file has been opened for writing, nothing raised yet
WrInit == [entries |-> <<>>, exc |-> "none"]

\* lines 43-64: the loop body for segment k (1-based, idx = k - 1); the
\* writes of segment io_fail raise IOError (0: no write fails)
WrStep(st, segs, k, io_fail) ==
    LET segment == segs[k]
        text == Strip(segment.text)
    IN  IF st.exc # "none" THEN st
        ELSE IF segment.start = NoTime \/ segment.end = NoTime
        THEN [entries |-> st.entries, exc |-> "ValueError"]
        ELSE IF text = <<>> THEN st
        ELSE IF io_fail = k THEN [entries |-> st.entries, exc |-> "IOError"]
        ELSE [entries |-> Append(st.entries,
                                 [number |-> k,
                                  start |-> format_time(segment.start),
                                  end |-> format_time(segment.end),
                                  text |-> text]),
              exc |-> "none"]

RECURSIVE WrRun(_, _, _)
WrRun(segs, k, io_fail) ==
    IF k = 0 THEN WrInit ELSE WrStep(WrRun(segs, k - 1, io_fail), segs, k, io_fail)

\* the caller holds a list of segments; no file is at filename
InitSrt ==
    /\ TmIdle
    /\ SbIdle
    /\ FxIdle
    /\ TtsIdle
    /\ McIdle
    /\ \E n \in 0..MaxEntries :
          \E texts \in [1..n -> SrtTexts], spans \in [1..n -> SrtSpans] :
             srt_segments = [k \in 1..n |-> [text |-> texts[k],
                                             start |-> spans[k].start,
                                             end |-> spans[k].end]]
    /\ srt_file = [exists |-> FALSE, entries |-> <<>>]
    /\ wpc = "input"
    /\ werr = "none"

\* lines 36-68: SubtitleWriter.write_srt(filename, srt_segments); what was
\* written before an exception is in the file when the with block closes it
WriteSrt(io_fail) ==
    /\ wpc = "input"
    /\ io_fail <= Len(srt_segments)
    /\ LET st == WrRun(srt_segments, Len(srt_segments), io_fail)
       IN  /\ srt_file' = [exists |-> TRUE, entries |-> st.entries]
           /\ wpc' = IF st.exc = "none" THEN "returned" ELSE "raised"
           /\ werr' = st.exc
    /\ UNCHANGED srt_segments
    /\ UNCHANGED <<tmVars, sbVars, fxVars, ttsVars, mcVars>>

NextSrt == \E io_fail \in 0..MaxEntries : WriteSrt(io_fail)

SpecSrt == InitSrt /\ [][NextSrt]_vars

\* ============================================================ SrtsToFcpxml
\* lines 137-141: video_settings.get('fps', 30)
fps == 30
\* lines 196-197, 249-250: the lead-in taken off a start later than it (ms)
lead_in == 34
\* lines 13-17: get_Fraction_time(time, fps): the frame the time falls in;
\* the string written is the fraction frame/fps of a second
get_Fraction_time(time) == (time * fps) \div 1000

\* the times (ms) cues start and end at
TimePoints == {0, 34, 35, 100, 200}
Cues == {c \in [start : TimePoints, end : TimePoints] : c.start < c.end}
\* the cue lists of n cues, in the order of their starts
RECURSIVE CueLists(_)
CueLists(n) ==
    IF n = 0 THEN {<<>>}
    ELSE {Append(p[1], p[2]) :
            p \in {q \in CueLists(n - 1) \X Cues :
                     q[1] = <<>> \/ q[1][Len(q[1])].start <= q[2].start}}
\* a translation of the cues: the first n of them, or all and one more
TransOf(subs, n) ==
    IF subs = <<>> THEN <<>>
    ELSE IF n <= Len(subs) THEN SubSeq(subs, 1, n)
    ELSE Append(subs, subs[Len(subs)])
TransLists(subs) == {TransOf(subs, n) : n \in 0..(Len(subs) + 1)}

\* lines 176-178: before the first cue
SpineInit == [spine |-> <<>>, exc |-> "none"]
\* a variant that also makes a gap of no length where the cues touch
GapBeforeNotLater(subs, seamless, k) ==
    LET pre_sub_end == IF k = 1 THEN 0 ELSE subs[k - 1].end
    IN  IF ~seamless /\ pre_sub_end <= subs[k].start
        THEN <<[tag |-> "gap", cue |-> k,
                ms_start |-> pre_sub_end,
                ms_duration |-> subs[k].start - pre_sub_end,
                offset |-> get_Fraction_time(pre_sub_end),
                duration |-> get_Fraction_time(subs[k].start - pre_sub_end),
                titles |-> <<>>]>>
        ELSE <<>>
\* lines 181-192: the gap element before cue k, if one is made
GapBefore(subs, seamless, k) ==
    LET pre_sub_end == IF k = 1 THEN 0 ELSE subs[k - 1].end
    IN  IF ~seamless /\ pre_sub_end < subs[k].start
        THEN <<[tag |-> "gap", cue |-> k,
                ms_start |-> pre_sub_end,
                ms_duration |-> subs[k].start - pre_sub_end,
                offset |-> get_Fraction_time(pre_sub_end),
                duration |-> get_Fraction_time(subs[k].start - pre_sub_end),
                titles |-> <<>>]>>
        ELSE <<>>
\* lines 195-197, 248-250: start
StartOfCue(subs, seamless, k) ==
    IF seamless /\ subs[k].start > lead_in
    THEN subs[k].start - lead_in ELSE subs[k].start
\* lines 200-203, 252-255: duration; count is the number of source cues
DurationOfCue(subs, seamless, k, count) ==
    IF seamless /\ k < count
    THEN subs[k + 1].start - StartOfCue(subs, seamless, k)
    ELSE subs[k].end - subs[k].start
\* lines 195-215: the title element of source cue k
TitleOf(subs, seamless, k) ==
    [tag |-> "title", cue |-> k,
     ms_start |-> StartOfCue(subs, seamless, k),
     ms_duration |-> DurationOfCue(subs, seamless, k, Len(subs)),
     offset |-> get_Fraction_time(StartOfCue(subs, seamless, k)),
     duration |-> get_Fraction_time(DurationOfCue(subs, seamless, k, Len(subs))),
     titles |-> <<>>]
\* lines 179-235: one turn of the loop over the source cues
SourceStep(st, subs, seamless, k) ==
    [st EXCEPT !.spine = st.spine \o GapBefore(subs, seamless, k)
                                  \o <<TitleOf(subs, seamless, k)>>]
RECURSIVE SourceRun(_, _, _)
SourceRun(subs, seamless, k) ==
    IF k = 0 THEN SpineInit
    ELSE SourceStep(SourceRun(subs, seamless, k - 1), subs, seamless, k)

\* title_list[k]: where the title of source cue k is among the children
TitleAt(sp, k) == CHOOSE p \in 1..Len(sp) : sp[p].tag = "title" /\ sp[p].cue = k
\* lines 245-267: the child title of cue k of a translation on a lane
ChildOf(subs, seamless, k, count, lane) ==
    [lane |-> lane,
     ms_start |-> StartOfCue(subs, seamless, k),
     ms_duration |-> DurationOfCue(subs, seamless, k, count),
     offset |-> get_Fraction_time(StartOfCue(subs, seamless, k)),
     duration |-> get_Fraction_time(DurationOfCue(subs, seamless, k, count))]
\* lines 241-284: one turn of the loop over range(count) for a translation;
\* trans_subs[i + 1] raises IndexError past the end of the list
TransStep(st, subs, seamless, k, count, lane) ==
    IF st.exc # "none" \/ k > Len(subs) THEN st
    ELSE IF seamless /\ k < count /\ k + 1 > Len(subs)
    THEN [st EXCEPT !.exc = "IndexError"]
    ELSE [st EXCEPT !.spine[TitleAt(st.spine, k)].titles =
                        Append(@, ChildOf(subs, seamless, k, count, lane))]
RECURSIVE TransRun(_, _, _, _, _, _)
TransRun(st, subs, seamless, k, count, lane) ==
    IF k = 0 THEN st
    ELSE TransStep(TransRun(st, subs, seamless, k - 1, count, lane),
                   subs, seamless, k, count, lane)
\* lines 237-286: the loop over trans_srts
RECURSIVE LanesRun(_, _, _, _, _)
LanesRun(st, subs, trans, seamless, lane) ==
    IF lane = 0 THEN st
    ELSE TransRun(LanesRun(st, subs, trans, seamless, lane - 1),
                  trans[lane], seamless, Len(subs), Len(subs), lane)
\* lines 127-293: the document SrtsToFcpxml builds
SrtsToFcpxmlOp(subs, trans, seamless) ==
    LanesRun(SourceRun(subs, seamless, Len(subs)), subs, trans, seamless,
             Len(trans))

\* the caller holds a source cue list and at most two translations of it
InitFcpxml ==
    /\ TmIdle
    /\ SbIdle
    /\ SwIdle
    /\ TtsIdle
    /\ McIdle
    /\ \E n \in 0..MaxCues : source_subs \in CueLists(n)
    /\ \/ trans_srts = <<>>
       \/ \E a \in TransLists(source_subs) : trans_srts = <<a>>
       \/ \E a \in TransLists(source_subs), b \in TransLists(source_subs) :
             trans_srts = <<a, b>>
    /\ seamless_fcpxml \in BOOLEAN
    /\ spine = <<>>
    /\ fpc = "input"

\* lines 127-293: SrtsToFcpxml(source_srt, trans_srts, save_path,
\* seamless_fcpxml); the file is written by the last statement only
Export ==
    /\ fpc = "input"
    /\ LET st == SrtsToFcpxmlOp(source_subs, trans_srts, seamless_fcpxml)
       IN  IF Len(source_subs) = 0
           THEN fpc' = "empty" /\ spine' = <<>>
           ELSE IF st.exc # "none"
           THEN fpc' = "raised" /\ spine' = <<>>
           ELSE fpc' = "written" /\ spine' = st.spine
    /\ UNCHANGED <<source_subs, trans_srts, seamless_fcpxml>>
    /\ UNCHANGED <<tmVars, sbVars, swVars, ttsVars, mcVars>>

NextFcpxml == Export

SpecFcpxml == InitFcpxml /\ [][NextFcpxml]_vars

\* ================================================ TTSWorker.process_response
\* what a call of SubtitleWriter.write_srt can do: return, raise when it opens
\* the file, or raise after it opened it (the file then exists)
WriteOutcomes == {"ok", "open_raises", "write_raises"}
\* the file at name after a write_srt or open/write with that how
Written(name, how) ==
    IF how = "open_raises" THEN files ELSE [files EXCEPT ![name] = run_no]
\* self.error.emit / self.finished.emit
Emit(signal) == Append(signals, signal)

\* no run yet; no file of base_path exists
InitTts ==
    /\ TmIdle
    /\ SbIdle
    /\ SwIdle
    /\ FxIdle
    /\ McIdle
    /\ worker \in Workers
    /\ resp_json = [audio |-> "missing", alignment |-> "missing"]
    /\ tpc = "idle"
    /\ run_no = 0
    /\ files = [f \in FileNames |-> 0]
    /\ signals = <<>>
    /\ exported = <<>>

\* lines 51-69, 125: a new TTSWorker with the same save_path enters
\* process_response
ProcessResponse(w, r) ==
    /\ tpc \in {"idle", "done"}
    /\ run_no < MaxRuns
    /\ worker' = w
    /\ resp_json' = r
    /\ run_no' = run_no + 1
    /\ signals' = <<>>
    /\ tpc' = "audio"
    /\ UNCHANGED <<files, exported>>
    /\ UNCHANGED <<tmVars, sbVars, swVars, fxVars, mcVars>>

\* lines 132-141
DecodeAudio ==
    /\ tpc = "audio"
    /\ IF resp_json.audio = "missing"
       THEN signals' = Emit("error_no_audio") /\ tpc' = "done"
       ELSE IF resp_json.audio = "undecodable"
       THEN signals' = Emit("error_decode") /\ tpc' = "done"
       ELSE signals' = signals /\ tpc' = "save"
    /\ UNCHANGED <<worker, resp_json, run_no, files, exported>>
    /\ UNCHANGED <<tmVars, sbVars, swVars, fxVars, mcVars>>

\* lines 143-149
SaveAudio(how) ==
    /\ tpc = "save"
    /\ files' = Written("audio", how)
    /\ IF how = "ok"
       THEN signals' = signals /\ tpc' = "alignment"
       ELSE signals' = Emit("error_save") /\ tpc' = "done"
    /\ UNCHANGED <<worker, resp_json, run_no, exported>>
    /\ UNCHANGED <<tmVars, sbVars, swVars, fxVars, mcVars>>

\* lines 152-163
Alignment ==
    /\ tpc = "alignment"
    /\ tpc' = IF resp_json.alignment = "complete" THEN "standard" ELSE "finish"
    /\ UNCHANGED <<worker, resp_json, run_no, files, signals, exported>>
    /\ UNCHANGED <<tmVars, sbVars, swVars, fxVars, mcVars>>

\* lines 167-172, 258-260: build_segments may raise (IndexError on short
\* time lists), write_srt may raise
StandardSubtitles(how) ==
    /\ tpc = "standard"
    /\ IF how = "build_raises"
       THEN files' = files
       ELSE files' = Written("srt", how)
    /\ IF how = "ok"
       THEN signals' = signals /\ tpc' = "word"
       ELSE signals' = Emit("error_subtitle") /\ tpc' = "finish"
    /\ UNCHANGED <<worker, resp_json, run_no, exported>>
    /\ UNCHANGED <<tmVars, sbVars, swVars, fxVars, mcVars>>

\* lines 175-184, 258-260
WordSubtitles(how) ==
    /\ tpc = "word"
    /\ IF ~worker.word_level
       THEN how = "ok" /\ files' = files /\ signals' = signals
            /\ tpc' = "translate"
       ELSE /\ IF how = "build_raises"
               THEN files' = files
               ELSE files' = Written("word_srt", how)
            /\ IF how = "ok"
               THEN signals' = signals /\ tpc' = "translate"
               ELSE signals' = Emit("error_subtitle") /\ tpc' = "finish"
    /\ UNCHANGED <<worker, resp_json, run_no, exported>>
    /\ UNCHANGED <<tmVars, sbVars, swVars, fxVars, mcVars>>

\* a variant that gives up the run when the translation fails
TranslateOrReturn(how) ==
    /\ tpc = "translate"
    /\ IF ~worker.translate \/ ~worker.groq_key
       THEN how = "ok" /\ files' = files /\ signals' = signals
            /\ tpc' = "export"
       ELSE /\ IF how = "translator_raises"
               THEN files' = files
               ELSE files' = Written("cn_srt", how)
            /\ IF how = "ok"
               THEN signals' = signals /\ tpc' = "export"
               ELSE signals' = Emit("error_translation") /\ tpc' = "done"
    /\ UNCHANGED <<worker, resp_json, run_no, exported>>
    /\ UNCHANGED <<tmVars, sbVars, swVars, fxVars, mcVars>>

\* lines 187-213: the try of line 202 catches what the translator and
\* write_srt raise and reports it; the method goes on
Translate(how) ==
    /\ tpc = "translate"
    /\ IF ~worker.translate \/ ~worker.groq_key
       THEN how = "ok" /\ files' = files /\ signals' = signals
       ELSE /\ IF how = "translator_raises"
               THEN files' = files
               ELSE files' = Written("cn_srt", how)
            /\ IF how = "ok"
               THEN signals' = signals
               ELSE signals' = Emit("error_translation")
    /\ tpc' = "export"
    /\ UNCHANGED <<worker, resp_json, run_no, exported>>
    /\ UNCHANGED <<tmVars, sbVars, swVars, fxVars, mcVars>>

\* lines 216-230, 253-256: the import and the reads; a failure is logged
ExportCollect(ok) ==
    /\ tpc = "export"
    /\ IF ~worker.export_xml
       THEN ok /\ tpc' = "finish"
       ELSE tpc' = IF ok THEN "keywords" ELSE "finish"
    /\ UNCHANGED <<worker, resp_json, run_no, files, signals, exported>>
    /\ UNCHANGED <<tmVars, sbVars, swVars, fxVars, mcVars>>

\* lines 233-248: extract_keywords; a failure is reported, the export goes on
Keywords(ok) ==
    /\ tpc = "keywords"
    /\ IF worker.keyword_highlight /\ worker.groq_key
       THEN signals' = IF ok THEN signals ELSE Emit("error_keywords")
       ELSE ok /\ signals' = signals
    /\ tpc' = "fcpxml"
    /\ UNCHANGED <<worker, resp_json, run_no, files, exported>>
    /\ UNCHANGED <<tmVars, sbVars, swVars, fxVars, mcVars>>

\* lines 226-230: trans_contents holds the content of the _cn.srt file of
\* base_path if that file exists
trans_contents == IF files["cn_srt"] # 0 THEN <<files["cn_srt"]>> ELSE <<>>

\* lines 250-256: SrtsToFcpxml writes the file or raises (or returns without
\* a file); a failure is logged
ExportWrite(ok) ==
    /\ tpc = "fcpxml"
    /\ IF ok
       THEN /\ files' = [files EXCEPT !["fcpxml"] = run_no]
            /\ exported' = trans_contents
       ELSE UNCHANGED <<files, exported>>
    /\ tpc' = "finish"
    /\ UNCHANGED <<worker, resp_json, run_no, signals>>
    /\ UNCHANGED <<tmVars, sbVars, swVars, fxVars, mcVars>>

\* line 262
Finish ==
    /\ tpc = "finish"
    /\ signals' = Emit("finished")
    /\ tpc' = "done"
    /\ UNCHANGED <<worker, resp_json, run_no, files, exported>>
    /\ UNCHANGED <<tmVars, sbVars, swVars, fxVars, mcVars>>

Responses_json == [audio : {"missing", "undecodable", "ok"},
                   alignment : {"missing", "incomplete", "complete"}]

NextTts ==
    \/ \E w \in Workers, r \in Responses_json : ProcessResponse(w, r)
    \/ DecodeAudio
    \/ \E how \in WriteOutcomes : SaveAudio(how)
    \/ Alignment
    \/ \E how \in WriteOutcomes \cup {"build_raises"} : StandardSubtitles(how)
    \/ \E how \in WriteOutcomes \cup {"build_raises"} : WordSubtitles(how)
    \/ \E how \in WriteOutcomes \cup {"translator_raises"} : Translate(how)
    \/ \E ok \in BOOLEAN : ExportCollect(ok)
    \/ \E ok \in BOOLEAN : Keywords(ok)
    \/ \E ok \in BOOLEAN : ExportWrite(ok)
    \/ Finish

\* process_response is sequential code run by one QThread: a run that
\* began takes its next step
SpecTts == InitTts /\ [][NextTts]_vars /\ WF_vars(NextTts)

\* ====================================================== MediaConverter.run
\* what process_file does with a file: it returns, ffmpeg fails
\* (subprocess.CalledProcessError), or it raises another exception
FileOutcomes == {"ok", "CalledProcessError", "Exception"}
\* GlobalProgressMonitor.update_overall_progress(current, total, text)
Report(current) == Append(reports, <<current, Len(self_files)>>)

\* the module is imported (line 25: GlobalProgressMonitor = None) and a
\* caller may have installed a monitor; find_files found the files
InitConvert ==
    /\ TmIdle
    /\ SbIdle
    /\ SwIdle
    /\ FxIdle
    /\ TtsIdle
    /\ GlobalProgressMonitor \in {"None", "monitor"}
    /\ stop_flag = FALSE
    /\ use_cli \in BOOLEAN
    /\ \E n \in 0..MaxFiles : self_files \in [1..n -> FileOutcomes]
    /\ file_no = 0
    /\ processed = <<>>
    /\ reports = <<>>
    /\ mpc = "input"

\* lines 376-397: up to the loop
RunBegin ==
    /\ mpc = "input"
    /\ IF self_files = <<>>
       THEN mpc' = "returned" /\ reports' = reports
       ELSE /\ mpc' = "loop"
            /\ reports' = IF GlobalProgressMonitor # "None" THEN Report(0)
                          ELSE reports
    /\ UNCHANGED <<GlobalProgressMonitor, stop_flag, use_cli, self_files,
                   file_no, processed>>
    /\ UNCHANGED <<tmVars, sbVars, swVars, fxVars, ttsVars>>

\* lines 399-453: one turn of the loop over self.files; the try of line 434
\* catches what process_file raises
LoopTurn ==
    /\ mpc = "loop"
    /\ file_no < Len(self_files)
    /\ IF GlobalProgressMonitor # "None" /\ stop_flag
       THEN /\ mpc' = "report"
            /\ UNCHANGED <<file_no, processed, reports>>
       ELSE /\ file_no' = file_no + 1
            /\ processed' = Append(processed, file_no + 1)
            /\ reports' = IF GlobalProgressMonitor # "None"
                          THEN Report(file_no) \o <<<<file_no + 1, Len(self_files)>>>>
                          ELSE reports
            /\ mpc' = "loop"
    /\ UNCHANGED <<GlobalProgressMonitor, stop_flag, use_cli, self_files>>
    /\ UNCHANGED <<tmVars, sbVars, swVars, fxVars, ttsVars>>

\* line 399: the loop is through with self.files
LoopEnd ==
    /\ mpc = "loop"
    /\ file_no = Len(self_files)
    /\ mpc' = "report"
    /\ UNCHANGED <<GlobalProgressMonitor, stop_flag, use_cli, self_files,
                   file_no, processed, reports>>
    /\ UNCHANGED <<tmVars, sbVars, swVars, fxVars, ttsVars>>

\* line 455: overall_pbar.n if overall_pbar else total
current_completed == IF use_cli THEN Len(processed) ELSE Len(self_files)

\* lines 455-468: the else branch of line 459 calls the monitor unguarded;
\* on None that raises AttributeError
FinalReport ==
    /\ mpc = "report"
    /\ IF GlobalProgressMonitor # "None" /\ stop_flag
       THEN reports' = Report(current_completed) /\ mpc' = "returned"
       ELSE IF GlobalProgressMonitor = "None"
       THEN reports' = reports /\ mpc' = "raised"
       ELSE reports' = Report(Len(self_files)) /\ mpc' = "returned"
    /\ UNCHANGED <<GlobalProgressMonitor, stop_flag, use_cli, self_files,
                   file_no, processed>>
    /\ UNCHANGED <<tmVars, sbVars, swVars, fxVars, ttsVars>>

\* the user interface sets the stop flag of its monitor while run works
RequestStop ==
    /\ mpc \in {"loop", "report"}
    /\ GlobalProgressMonitor # "None"
    /\ ~stop_flag
    /\ stop_flag' = TRUE
    /\ UNCHANGED <<GlobalProgressMonitor, use_cli, self_files, file_no,
                   processed, reports, mpc>>
    /\ UNCHANGED <<tmVars, sbVars, swVars, fxVars, ttsVars>>

NextConvert ==
    \/ RunBegin
    \/ LoopTurn
    \/ LoopEnd
    \/ FinalReport
    \/ RequestStop

SpecConvert == InitConvert /\ [][NextConvert]_vars

\* ================================================================ claims
\* positions (1-based) of batch b in a list of n segments
BatchFirst(b) == (b - 1) * batch_size + 1
BatchSize(b) == IF b * batch_size <= Len(segments)
                THEN batch_size ELSE Len(segments) - (b - 1) * batch_size
NumBatches == (Len(segments) + batch_size - 1) \div batch_size
\* the segment at position p of the list under construction
Out(p) == heap[translated_segments[p]]
\* translate_segments ran its loop to the end
LoopDone == entry = "translate_segments" /\ pc = "done" /\ api_key /\ segments # <<>>
\* the last finished batch was answered by a 200 response with a non-empty text
Answered == /\ entry = "translate_segments"
            /\ batch_log # <<>>
            /\ outcome.kind = "returned"
            /\ Truthy(outcome.content)

\* C1: translate_segments returns as many segments as it was given; when the
\* response of a batch splits into fewer pieces than the batch has segments
\* the tail segments keep their original text, and when it splits into more
\* the extras are discarded.
C1_SameLength ==
    /\ (entry = "translate_segments" /\ pc = "done") => Len(ret) = Len(segments)
    /\ \A b \in 1..Len(batch_log) : Len(batch_log[b].texts) = BatchSize(b)
    /\ Len(translated_segments) = (IF i < Len(segments) THEN i ELSE Len(segments))
    /\ Answered =>
          LET b == Len(batch_log)
              pieces == Split(outcome.content.text)
          IN  \A k \in 1..BatchSize(b) :
                 /\ k > Len(pieces) => Out(BatchFirst(b) + k - 1).text
                                          = SrcText(BatchFirst(b) + k - 1)
                 /\ (k <= Len(pieces) /\ Strip(pieces[k]) # <<>>)
                       => Out(BatchFirst(b) + k - 1).text = Strip(pieces[k])

C1_Witness ==
    /\ LoopDone
    /\ Len(segments) = 3
    /\ Truthy(batch_log[1].texts[1])
    /\ batch_log[1].texts[2].none
    /\ ~batch_log[1].failed
    /\ Answered
    /\ Len(Split(outcome.content.text)) = 2
    /\ Strip(Split(outcome.content.text)[2]) # <<>>
    /\ Len(ret) = 3

\* C2: a batch whose request raised contributes its original segments, the
\* later batches are still requested, and every other batch keeps the result
\* of its own response.
C2_FailedBatchFallsBack ==
    /\ \A b \in 1..Len(batch_log) :
          \A k \in 1..Len(batch_log[b].texts) :
             LET p == BatchFirst(b) + k - 1
                 t == batch_log[b].texts[k]
             IN  /\ p <= Len(translated_segments)
                 /\ Out(p).text = (IF Truthy(t) THEN t.text ELSE SrcText(p))
                 /\ batch_log[b].failed => Out(p) = SrcSegment(p)
    /\ LoopDone => (Len(batch_log) = NumBatches /\ ret = translated_segments)

C2_Witness ==
    /\ LoopDone
    /\ Len(segments) = 3
    /\ batch_log[1].failed
    /\ ~batch_log[2].failed
    /\ Truthy(batch_log[2].texts[1])
    /\ heap[ret[1]] = SrcSegment(1)
    /\ heap[ret[3]].text # SrcText(3)

\* C3: output segment p has the start and end of input segment p.
C3_OrderPreserved ==
    /\ \A p \in 1..Len(translated_segments) :
          /\ Out(p).start = SrcSegment(p).start
          /\ Out(p).end = SrcSegment(p).end
    /\ (entry = "translate_segments" /\ pc = "done") =>
          /\ Len(ret) = Len(segments)
          /\ \A p \in 1..Len(ret) :
                /\ heap[ret[p]].start = SrcSegment(p).start
                /\ heap[ret[p]].end = SrcSegment(p).end

C3_Witness ==
    /\ LoopDone
    /\ Len(segments) = 3
    /\ ~batch_log[1].failed
    /\ Truthy(batch_log[1].texts[1])
    /\ batch_log[1].texts[2].none
    /\ batch_log[2].failed
    /\ heap[ret[3]].start = SrcSegment(3).start

\* C4: the segments passed in are never modified; a translated text is
\* stored in a new object only.
C4_InputUntouched ==
    /\ \A k \in 1..Len(segments) : segments[k] = k /\ heap[k] = SrcSegment(k)
    /\ \A p \in 1..Len(translated_segments) :
          Out(p).text # SrcText(p) => translated_segments[p] > Len(segments)

C4_Witness ==
    /\ LoopDone
    /\ \E p \in 1..Len(ret) :
          /\ heap[ret[p]].text # SrcText(p)
          /\ ret[p] # segments[p]
          /\ heap[segments[p]].text = SrcText(p)

\* no time.sleep of the running call followed a network error
Only429 == \A k \in 1..Len(sleeps) : sleeps[k] # network_delay

\* C5: while every response is a 429, retry number k sleeps 5 * 2^(k-1)
\* seconds and there are at most max_retries retries; a 200 after j 429s
\* returns after j+1 requests and j sleeps; a 429 after the last retry raises.
C5_Backoff429 ==
    Only429 =>
       /\ Len(sleeps) <= max_retries
       /\ \A k \in 1..Len(sleeps) : sleeps[k] = backoff_delay * (2 ^ (k - 1))
       /\ (pc = "request" /\ status \in {"none", "429"}) =>
             (posts = Len(sleeps) /\ retry_count = Len(sleeps))
       /\ (entry = "_request_with_retry" /\ status = "200") =>
             (outcome.kind = "returned" /\ posts = Len(sleeps) + 1)
       /\ (entry = "_request_with_retry" /\ status = "429" /\ Len(sleeps) = max_retries
              /\ posts > max_retries) =>
             (outcome.kind = "raised" /\ pc = "done" /\ posts = max_retries + 1)
       /\ (outcome.kind = "raised" /\ status = "429") => Len(sleeps) = max_retries

C5_Witness ==
    /\ entry = "_request_with_retry"
    /\ pc = "done"
    /\ outcome.kind = "returned"
    /\ Truthy(outcome.content)
    /\ sleeps = <<5, 10, 20>>
    /\ posts = 4

\* C6 as stated: a status other than 200 and 429 raises only once the retry
\* cap is exhausted.
C6_OtherStatusRetried ==
    (status = "other" /\ outcome.kind = "raised") => retry_count > max_retries

\* C6 amended: a status other than 200 and 429 raises at once, without a
\* sleep and without counting a retry; a network error is retried after
\* network_delay seconds and raises once retry_count exceeds max_retries.
C6_OtherStatusRaisesAtOnce ==
    /\ status = "other" =>
          /\ outcome.kind = "raised"
          /\ pc = "done"
          /\ posts = Len(sleeps) + 1
          /\ retry_count = Len(sleeps)
    /\ (status = "exc" /\ pc = "request") =>
          (sleeps # <<>> /\ sleeps[Len(sleeps)] = network_delay /\ posts = Len(sleeps))
    /\ (status = "exc" /\ pc = "done") =>
          (outcome.kind = "raised" /\ retry_count = max_retries + 1
             /\ posts = max_retries + 1)

C6_Witness ==
    /\ entry = "_request_with_retry"
    /\ status = "other"
    /\ outcome.kind = "raised"
    /\ sleeps = <<network_delay>>
    /\ posts = 2

\* C7: a batch of k segments answered by k translations delimited by lines
\* of --- gets those k translations, in order, as its texts.
C7_DashDelimited ==
    Answered =>
       LET b == Len(batch_log)
           pieces == SplitOn(outcome.content.text, "DASH")
       IN  (/\ Len(pieces) = BatchSize(b)
            /\ \A k \in 1..Len(pieces) :
                  pieces[k] # <<>> /\ \A m \in 1..Len(pieces[k]) : pieces[k][m] \in TextAtoms)
           => \A k \in 1..Len(pieces) : Out(BatchFirst(b) + k - 1).text = pieces[k]

\* the non-whitespace characters of a string, in order
RECURSIVE NonWs(_)
NonWs(s) ==
    IF s = <<>> THEN <<>>
    ELSE IF Head(s) \in Whitespace THEN NonWs(Tail(s)) ELSE <<Head(s)>> \o NonWs(Tail(s))

\* the texts of a list of segments, concatenated
RECURSIVE ConcatTexts(_)
ConcatTexts(segs) ==
    IF segs = <<>> THEN <<>> ELSE Head(segs).text \o ConcatTexts(Tail(segs))

BuiltStandard == bpc = "built" /\ ~call.word_level
BuiltWordLevel == bpc = "built" /\ call.word_level
\* the locals of _build_segments_standard after k characters of the call
StdAt(k) == StdRun(chars, char_starts, char_ends, k, call.ignore_line_length)

\* C8: in standard mode the texts of the returned segments, concatenated,
\* are the input characters, both taken without whitespace.
C8_RoundTrip ==
    BuiltStandard => NonWs(ConcatTexts(result)) = NonWs(chars)

C8_Witness ==
    /\ BuiltStandard
    /\ Len(chars) = 3
    /\ chars[2] \in Whitespace
    /\ chars[1] \notin Whitespace
    /\ chars[3] \notin Whitespace
    /\ Len(result) = 2
    /\ NonWs(ConcatTexts(result)) = <<chars[1], chars[3]>>

\* C9: for non-decreasing start times with start <= end, every returned
\* segment has start <= end and the segments are in non-decreasing order of
\* start, in standard and in word-level mode.
C9_SegmentsOrdered ==
    bpc = "built" =>
       /\ \A k \in 1..Len(chars) :
             /\ char_starts[k] <= char_ends[k]
             /\ k < Len(chars) => char_starts[k] <= char_starts[k + 1]
       /\ \A j \in 1..Len(result) :
             /\ result[j].start <= result[j].end
             /\ j < Len(result) => result[j].start <= result[j + 1].start

C9_Witness ==
    /\ BuiltWordLevel
    /\ call.words_per_line = 2
    /\ Len(result) = 2
    /\ result[1].start < result[1].end
    /\ result[1].start < result[2].start
    /\ \E k \in 1..Len(chars) : chars[k] \in punctuation_chars

C11_SentenceEnderCloses ==
    BuiltStandard =>
       /\ \A k \in 1..Len(chars) :
             chars[k] \in sentence_enders =>
                LET before == StdAt(k - 1)
                    a == StdAt(k)
                    n == Len(a.sentences)
                IN  /\ a.current_line_text = <<>>
                    /\ n = Len(before.sentences) + 1
                    /\ result[n] = a.sentences[n]
                    /\ result[n].text[Len(result[n].text)] = chars[k]
                    /\ result[n].end = char_ends[k]
       /\ \A j \in 1..Len(result) :
             LET t == result[j].text
             IN  /\ t # <<>>
                 /\ t[1] \notin Whitespace
                 /\ t[Len(t)] \notin Whitespace
                 /\ \A m \in 1..Len(t) :
                       t[m] \in sentence_enders =>
                          \A m2 \in (m + 1)..Len(t) : t[m2] \in Whitespace

C11_Witness ==
    /\ BuiltStandard
    /\ call.ignore_line_length
    /\ Len(chars) = 3
    /\ chars[1] = " "
    /\ chars[2] \in sentence_enders
    /\ chars[3] = "a"
    /\ \A k \in 1..2 : char_ends[k] - char_starts[k] < pause_threshold
    /\ Len(result) = 2
    /\ result[1].text = <<chars[2]>>
    /\ result[2].text = <<"a">>

\* the characters after which _build_segments_standard closes the segment
\* when called with the given ignore_line_length
ClosingIndices(ignore_line_length) ==
    {k \in 1..Len(chars) :
        StdRun(chars, char_starts, char_ends, k, ignore_line_length).current_line_text = <<>>}

\* C12: the standard segmentation with ignore_line_length=False refines the
\* one with ignore_line_length=True: every character that closes a segment
\* with True closes one with False, and the further closing characters of
\* the False run are exactly the delimiters reached while the accumulated
\* text is longer than max_chars_per_line.
C12_LineLengthRefines ==
    BuiltStandard =>
       LET with_true == ClosingIndices(TRUE)
           with_false == ClosingIndices(FALSE)
       IN  /\ with_true \subseteq with_false
           /\ with_false \ with_true =
                 {k \in 1..Len(chars) :
                     /\ k \notin with_true
                     /\ chars[k] \in delimiters
                     /\ Len(StdRun(chars, char_starts, char_ends, k - 1,
                                   FALSE).current_line_text) + 1 > max_chars_per_line}
           /\ ~call.ignore_line_length =>
                 Len(result) >= Len(BuildSegmentsStandardOp(chars, char_starts,
                                                            char_ends, TRUE))
           /\ call.ignore_line_length =>
                 Len(result) <= Len(BuildSegmentsStandardOp(chars, char_starts,
                                                            char_ends, FALSE))

C12_Witness ==
    /\ BuiltStandard
    /\ ~call.ignore_line_length
    /\ Len(chars) = 3
    /\ chars[1] = "a"
    /\ chars[2] = ","
    /\ chars[3] = "a"
    /\ ClosingIndices(TRUE) = {3}
    /\ ClosingIndices(FALSE) = {2, 3}
    /\ Len(result) = 2
    /\ result[1].text = <<"a", ",">>

\* C13 as stated: with a start or end list shorter than the character list
\* build_segments does not raise and still returns its segments.
C13_ShortArraysTolerated ==
    (bpc # "input" /\ (Len(char_starts) < Len(chars) \/ Len(char_ends) < Len(chars)))
       => bpc = "built"

\* C14 as stated: in word-level mode no returned segment has a text made
\* only of punctuation, delimiter or sentence-ending characters.
C14_NoPunctuationOnlySegment ==
    BuiltWordLevel =>
       \A j \in 1..Len(result) :
          \E m \in 1..Len(result[j].text) :
             result[j].text[m] \notin (punctuation_chars \cup delimiters \cup sentence_enders)

\* the tokens of the alignment: the words tokenize_by_cjk returns
Words == tokenize_by_cjk(chars, char_starts, char_ends)
Grouped == bpc = "grouped"
\* the locals of group_words after k tokens of the call
GwAt(k) == GwRun(Words, k, call.words_per_line)

\* C15 as stated: group_words closes the group after a token that neither
\* fills the group nor holds a sentence-ending character exactly when the gap
\* to the next token is at least pause_threshold.
C15_PauseIsGap ==
    Grouped =>
       \A k \in 1..(Len(Words) - 1) :
          (/\ Len(GwAt(k - 1).current_group) + 1 < call.words_per_line
           /\ ~HasSentenceEnder(Words[k]))
          => ((GwAt(k).current_group = <<>>)
                 <=> (Words[k + 1].start - Words[k].end >= pause_threshold))

\* the words _build_segments_word_level groups (line 166)
ProcessedWords == merge_punctuation_with_previous(Words)
\* ceil(n / w)
CeilDiv(n, w) == (n + w - 1) \div w
\* the last of the n tokens that group j of size w holds
GroupLast(j, n, w) == IF j * w < n THEN j * w ELSE n

Tokenized == BuiltWordLevel \/ Grouped
\* the index of the first character of token j: the start the tokenizer
\* gives it when every character's time is its index
TokenFirst(j) ==
    LET idx == [k \in 1..Len(chars) |-> k]
    IN  tokenize_by_cjk(chars, idx, idx)[j].start
\* the index of its last character: a token is a run of consecutive characters
TokenLast(j) == TokenFirst(j) + Len(Words[j].text) - 1

\* C17 as stated: every token starts at the start of its first character
\* and ends at the end of its last character.
C17_TokenSpansItsChars ==
    Tokenized =>
       \A j \in 1..Len(Words) :
          /\ Words[j].text = SubSeq(chars, TokenFirst(j), TokenLast(j))
          /\ Words[j].start = char_starts[TokenFirst(j)]
          /\ Words[j].end = char_ends[TokenLast(j)]

\* the first k of the given texts with sep[m] put between text m and m + 1
RECURSIVE Interleave(_, _, _)
Interleave(parts, sep, k) ==
    IF k = 0 THEN <<>>
    ELSE IF k = 1 THEN parts[1]
    ELSE Interleave(parts, sep, k - 1) \o sep[k - 1] \o parts[k]

\* the group smart_join is called with at iteration k of the word-level
\* loop, when that iteration closes a group
ClosedGroup(k) ==
    Append(GroupRun(ProcessedWords, k - 1, call.words_per_line).current_group,
           ProcessedWords[k])

Clustered == bpc = "clustered"
\* the index of the first character of cluster j
ClusterFirst(j) == Len(ConcatTexts(SubSeq(result, 1, j - 1))) + 1
ClusterLast(j) == ClusterFirst(j) + Len(result[j].text) - 1

\* C19: the clusters partition the characters in order: each is one
\* character followed by all the combining marks that follow it directly,
\* starts at its first character's start and ends at its last character's
\* end, and the cluster texts concatenated are the input characters.
C19_ClustersPartition ==
    Clustered =>
       /\ ConcatTexts(result) = chars
       /\ \A j \in 1..Len(result) :
             LET items == CharItems(chars, char_starts, char_ends)
                 text == result[j].text
             IN  /\ Len(text) >= 1
                 /\ \A m \in 2..Len(text) : is_combining_mark(text[m])
                 /\ ClusterLast(j) < Len(chars) =>
                       ~is_combining_mark(chars[ClusterLast(j) + 1])
                 /\ result[j].start = items[ClusterFirst(j)].start
                 /\ result[j].end = items[ClusterLast(j)].end

C19_Witness ==
    /\ Clustered
    /\ chars = <<"a", "mark", "a">>
    /\ Len(char_starts) = 3
    /\ Len(char_ends) = 3
    /\ char_ends[2] > char_ends[1]
    /\ Len(result) = 2
    /\ result[1] = [text |-> <<"a", "mark">>, start |-> char_starts[1], end |-> char_ends[2]]
    /\ result[2] = [text |-> <<"a">>, start |-> char_starts[3], end |-> char_ends[3]]

\* C20 as stated: the sequence numbers of the entries write_srt wrote are
\* 1, 2, 3, ... in the order of the file, whatever segments were skipped.
C20_ConsecutiveNumbers ==
    wpc \in {"returned", "raised"} =>
       \A j \in 1..Len(srt_file.entries) : srt_file.entries[j].number = j

\* the time fields of round(seconds * 1000) milliseconds, split by integer
\* division (seconds in units of 1/10000 s, a half rounding up)
RoundedTime(seconds) ==
    LET ms == (seconds + 5) \div 10
    IN  [hours |-> ms \div 3600000,
         mins |-> (ms % 3600000) \div 60000,
         secs |-> (ms % 60000) \div 1000,
         mils |-> ms % 1000]

\* C21 as stated: the timestamps write_srt writes for a segment are its
\* times rounded to the nearest millisecond, a round-up to 1000 ms carrying
\* into the seconds.
C21_RoundsToNearest ==
    wpc \in {"returned", "raised"} =>
       \A j \in 1..Len(srt_file.entries) :
          LET segment == srt_segments[srt_file.entries[j].number]
          IN  /\ srt_file.entries[j].start = RoundedTime(segment.start)
              /\ srt_file.entries[j].end = RoundedTime(segment.end)

\* C22 as stated: when write_srt raises, the file holds no entry of the
\* segments before the failure.
C22_AllOrNothing ==
    wpc = "raised" => srt_file.entries = <<>>

\* the title elements of the spine, in document order
Titles == SelectSeq(spine, LAMBDA e : e.tag = "title")
\* pre_sub_end when the loop reaches source cue k
PrevEnd(k) == IF k = 1 THEN 0 ELSE source_subs[k - 1].end

\* C23: in seamless mode consecutive cues abut: for every cue that is not
\* the last, its emitted start plus its emitted duration (in source ms,
\* before frame quantisation) is the emitted, lead-in-adjusted start of
\* the next cue
C23_SeamlessCuesAbut ==
    (fpc = "written" /\ seamless_fcpxml) =>
        \A k \in 1..(Len(Titles) - 1) :
            Titles[k].ms_start + Titles[k].ms_duration = Titles[k + 1].ms_start

\* C24: in non-seamless mode a gap element stands immediately before the
\* title of cue k exactly when the end of the previous cue (0 before the
\* first) is strictly earlier than the start of cue k, with offset that
\* previous end and duration the difference; in seamless mode the spine
\* holds no gap element
C24_GapsExactly ==
    fpc = "written" =>
        /\ Len(Titles) = Len(source_subs)
        /\ spine[Len(spine)].tag = "title"
        /\ seamless_fcpxml => \A p \in 1..Len(spine) : spine[p].tag # "gap"
        /\ ~seamless_fcpxml =>
              \A k \in 1..Len(source_subs) :
                 LET p == TitleAt(spine, k)
                 IN  IF PrevEnd(k) < source_subs[k].start
                     THEN /\ p > 1
                          /\ spine[p - 1].tag = "gap"
                          /\ spine[p - 1].ms_start = PrevEnd(k)
                          /\ spine[p - 1].ms_duration =
                                 source_subs[k].start - PrevEnd(k)
                          /\ spine[p - 1].offset = get_Fraction_time(PrevEnd(k))
                          /\ spine[p - 1].duration =
                                 get_Fraction_time(source_subs[k].start - PrevEnd(k))
                     ELSE p = 1 \/ spine[p - 1].tag = "title"
C24_Witness ==
    /\ fpc = "written"
    /\ ~seamless_fcpxml
    /\ Len(source_subs) = 3
    /\ PrevEnd(2) < source_subs[2].start
    /\ PrevEnd(3) = source_subs[3].start
    /\ spine[1].tag = "title"
    /\ spine[2].tag = "gap"
    /\ Len(spine) = 4

\* C28: SrtsToFcpxml completes when a translation has fewer cues than the
\* source, in seamless as in non-seamless mode: the file is written, and
\* the source cues past the translation's length have no child title on
\* that lane
C28_ShortTranslationCompletes ==
    (fpc \notin {"off", "input"} /\ Len(source_subs) > 0) =>
        /\ fpc = "written"
        /\ \A lane \in 1..Len(trans_srts) :
              \A k \in 1..Len(source_subs) :
                 (\E q \in 1..Len(Titles[k].titles) :
                      Titles[k].titles[q].lane = lane)
                 <=> k <= Len(trans_srts[lane])

\* C26: as the docstring of _build_segments_standard says, the pause that
\* closes a segment is the gap between characters, char_starts[k+1] -
\* char_ends[k] >= pause_threshold, not the duration of one character: with
\* the line length ignored, a character that is neither the last nor a
\* sentence ender closes the segment exactly when that gap is a pause, so
\* one long character does not by itself split a segment
C26_PauseIsGapBetweenChars ==
    (BuiltStandard /\ call.ignore_line_length) =>
       \A k \in 1..(Len(chars) - 1) :
          (/\ chars[k] \notin sentence_enders
           /\ Clean(Append(StdAt(k - 1).current_line_text, chars[k])) # <<>>) =>
             (Len(StdAt(k).sentences) > Len(StdAt(k - 1).sentences)
              <=> char_starts[k + 1] - char_ends[k] >= pause_threshold)

\* C27: whatever the outcomes of the HTTP calls (429, network or timeout
\* exception, other status, 200, in any order), _request_with_retry ends
\* after at most max_retries + 1 requests: 429 responses and exceptions
\* count on the one retry_count, each request but the last of a call
\* having counted one retry, and a call in progress always ends
C27_RetryTerminates ==
    /\ [](posts <= max_retries + 1)
    /\ [](pc = "request" => (posts = retry_count /\ retry_count <= max_retries))
    /\ [](pc = "request" => Len(sleeps) = retry_count)
    /\ (entry = "_request_with_retry" /\ pc = "request") ~> (pc = "done")
C27_Witness ==
    /\ entry = "_request_with_retry"
    /\ pc = "done"
    /\ outcome.kind = "raised"
    /\ status = "exc"
    /\ sleeps = <<backoff_delay, network_delay, backoff_delay * 4>>
    /\ posts = max_retries + 1

\* the finished signal was emitted exactly once, as the last signal
FinishedOnceAtEnd ==
    /\ signals # <<>>
    /\ signals[Len(signals)] = "finished"
    /\ \A k \in 1..(Len(signals) - 1) : signals[k] # "finished"

\* C25: in process_response, with decodable audio and complete alignment
\* arrays, the standard subtitle file is written by the run before it
\* attempts translation or FCPXML export; a failure of translation, keyword
\* extraction or export does not remove that file, and the run still ends
\* with the finished signal emitted exactly once, at the end
C25_StandardBeforeExtras ==
    /\ [](tpc \in {"translate", "export", "keywords", "fcpxml"} =>
            (/\ resp_json.audio = "ok"
             /\ resp_json.alignment = "complete"
             /\ files["srt"] = run_no))
    /\ [][(tpc \in {"translate", "export", "keywords", "fcpxml"}) =>
            (files'["srt"] = files["srt"] /\ tpc' # "done")]_vars
    /\ []((tpc = "done" /\ files["srt"] = run_no) => FinishedOnceAtEnd)
    /\ [](\A k \in 1..Len(signals) :
            signals[k] = "finished" => (k = Len(signals) /\ tpc = "done"))
    /\ (tpc = "translate") ~> (tpc = "done" /\ files["srt"] = run_no /\ FinishedOnceAtEnd)
C25_Witness ==
    /\ tpc = "done"
    /\ worker.translate
    /\ worker.export_xml
    /\ worker.keyword_highlight
    /\ signals = <<"error_translation", "error_keywords", "finished">>
    /\ files["srt"] = run_no
    /\ files["fcpxml"] # run_no

\* C29: over successive runs saving to one path, the exported FCPXML holds
\* a translation only if the run that exported it wrote the translated
\* subtitle file: no run exports translated cues an earlier run left
C29_NoStaleTranslation ==
    (run_no > 0 /\ files["fcpxml"] = run_no) =>
        \A k \in 1..Len(exported) : exported[k] = run_no

\* C30: with no progress monitor installed (GlobalProgressMonitor is None)
\* run finishes normally after the last file, every use of the monitor
\* being guarded, the final completion report included; and a failure of
\* process_file on one file never keeps the remaining files from being
\* processed
C30_RunsWithoutMonitor ==
    /\ (mpc \in {"returned", "raised"} /\ GlobalProgressMonitor = "None") =>
          (mpc = "returned" /\ reports = <<>>)
    /\ (mpc \in {"report", "returned", "raised"} /\ ~stop_flag) =>
          processed = [k \in 1..Len(self_files) |-> k]
====
